---- MODULE Spec2Model ----
(***************************************************************************)
(* nv-switcher: the built-in search provider (inverted index, scorer,      *)
(* bounded min-heap, streaming query).                                     *)
(*                                                                         *)
(* Text is a sequence of one-character strings.  A document is a record    *)
(* with the fields of Doc (types.ts); scores are integers in units of      *)
(* 1/SCALE; match spans are not modelled (no operation reads them back).   *)
(***************************************************************************)
EXTENDS Integers, Sequences, FiniteSets, TLC

VARIABLES
    index,      \* BuiltInProvider.index: term -> posting list
    docs,       \* BuiltInProvider.docs: insertion-ordered list of [id, doc, fieldLengths]
    df,         \* BuiltInProvider.df: term -> count
    totalDocs,  \* BuiltInProvider.totalDocs
    options,    \* BuiltInProvider.options: [maxDocs, maxBodyLength, regexCandidateK]
    outcome,    \* what the last operation returned to its caller
    calls,      \* the upsert calls suspended at their await, oldest first
    burst,      \* history: the calls that overlap, and the provider before them
    stream,     \* a queryStream generator: its frame, what it yielded so far, and
                \* (history) the provider as it was when the generator started
    signal,     \* the AbortSignal the caller passes in QueryOptions.signal
    vault,      \* the vault's files, VaultEventHandler and VaultIndex
    minHeap,    \* a MinHeap: maxSize, items, and (history) what was pushed
    indexer,    \* a VaultIndex at work: file cache, body queue, queue processor
    parser      \* the last call of parseQueryWithErrors: its input and what it returned

vars == <<index, docs, df, totalDocs, options, outcome, calls, burst, stream, signal, vault,
          minHeap, indexer, parser>>

(***************************************************************************)
(* Generic helpers                                                         *)
(***************************************************************************)
Min2(a, b) == IF a <= b THEN a ELSE b

Max2(a, b) == IF a >= b THEN a ELSE b

Range(s) == {s[i] : i \in 1..Len(s)}

\* Array.prototype.slice(0, n)
Slice(s, n) == SubSeq(s, 1, Min2(Len(s), Max2(n, 0)))

Reverse(s) == [i \in 1..Len(s) |-> s[Len(s) + 1 - i]]

\* the subsequence of s whose elements are in the set keep
FilterSeq(s, keep) == SelectSeq(s, LAMBDA x : x \in keep)

\* Array.prototype.includes on a list
Includes(s, x) == \E i \in 1..Len(s) : s[i] = x

RECURSIVE JoinSp(_)
\* Array.prototype.join(' ') on a list of texts
JoinSp(parts) ==
    IF parts = <<>> THEN <<>>
    ELSE IF Len(parts) = 1 THEN parts[1]
    ELSE parts[1] \o <<" ">> \o JoinSp(Tail(parts))

\* String.prototype.includes: needle occurs in hay at some offset
IsSubstring(needle, hay) ==
    \E i \in 0..(Len(hay) - Len(needle)) : SubSeq(hay, i + 1, i + Len(needle)) = needle

\* String.prototype.startsWith
StartsWith(s, p) == Len(p) <= Len(s) /\ SubSeq(s, 1, Len(p)) = p

(***************************************************************************)
(* normalize.ts                                                            *)
(***************************************************************************)
\* String.prototype.toLowerCase on the characters the model uses
ToLowerCase(c) ==
    CASE c = "A" -> "a"
      [] c = "B" -> "b"
      [] c = "X" -> "x"
      [] c = "E" -> "e"
      [] c = "E'" -> "e'"
      [] OTHER -> c

\* normalize('NFD') followed by the removal of U+0300..U+036F; the one-character
\* strings "e'" and "E'" stand for e and E with an acute accent
StripMarks(c) == IF c = "e'" THEN "e" ELSE c

normalizeText(str, diacritics) ==
    [i \in 1..Len(str) |->
        IF diacritics THEN ToLowerCase(str[i]) ELSE StripMarks(ToLowerCase(str[i]))]

\* \p{Letter} or \p{Number}
IsWordChar(c) == c \in {"a", "b", "x", "e", "e'", "A", "B", "X", "E", "E'", "1", "2"}

RECURSIVE MatchWords(_, _, _)
\* String.prototype.match(/[\p{Letter}\p{Number}]+/gu): the maximal runs, in order
MatchWords(s, cur, acc) ==
    IF s = <<>> THEN (IF cur = <<>> THEN acc ELSE Append(acc, cur))
    ELSE IF IsWordChar(Head(s)) THEN MatchWords(Tail(s), Append(cur, Head(s)), acc)
    ELSE MatchWords(Tail(s), <<>>, IF cur = <<>> THEN acc ELSE Append(acc, cur))

tokenizeWords(input, diacritics) == MatchWords(normalizeText(input, diacritics), <<>>, <<>>)

(***************************************************************************)
(* Provider configuration (BuiltInProviderOptions, ScorerConfig)           *)
(***************************************************************************)
\* DEFAULT_SCORER_CONFIG.diacritics (true = preserve diacritics)
diacritics == TRUE

(***************************************************************************)
(* Map helpers (a Map is a function whose domain is its key set)           *)
(***************************************************************************)
EmptyMap == <<>>

MapSet(m, k, v) == [x \in (DOMAIN m) \cup {k} |-> IF x = k THEN v ELSE m[x]]

MapDelete(m, ks) == [x \in (DOMAIN m) \ ks |-> m[x]]

\* docs is kept as the list of its entries in insertion order
DocsHas(D, id) == \E i \in 1..Len(D) : D[i].id = id

DocsGet(D, id) == D[CHOOSE i \in 1..Len(D) : D[i].id = id]

\* Map.prototype.set: an existing key keeps its place, a new key goes last
DocsSet(D, id, meta) ==
    IF DocsHas(D, id)
    THEN [i \in 1..Len(D) |-> IF D[i].id = id THEN meta ELSE D[i]]
    ELSE Append(D, meta)

DocsDelete(D, id) == SelectSeq(D, LAMBDA m : m.id # id)

DocIds(D) == {D[i].id : i \in 1..Len(D)}

(***************************************************************************)
(* BuiltInProvider: index maintenance.  P is the provider's state          *)
(* [index, docs, df, totalDocs, options].                                  *)
(***************************************************************************)
\* the provider right after its constructor ran with the given options
NewProvider(opts) ==
    [index |-> EmptyMap, docs |-> <<>>, df |-> EmptyMap, totalDocs |-> 0, options |-> opts]

\* the order in which upsert walks the searchable fields
SearchableFields == <<"title", "path", "headings", "tags", "symbols", "body">>

\* the text upsert tokenizes for a field
FieldContent(doc, field) ==
    CASE field = "title" -> doc.title
      [] field = "path" -> JoinSp(doc.path)
      [] field = "headings" -> JoinSp(doc.headings)
      [] field = "tags" -> JoinSp(doc.tags)
      [] field = "symbols" -> JoinSp(doc.symbols)
      [] field = "body" -> doc.body

\* body.substring(0, maxBodyLength) when the body is too large
ProcessedDoc(doc, maxBodyLength) ==
    [doc EXCEPT !.body = IF Len(doc.body) > maxBodyLength
                         THEN SubSeq(doc.body, 1, maxBodyLength)
                         ELSE doc.body]

RECURSIVE UniqueTerms(_, _)
\* the keys of the positions Map, in first-occurrence order
UniqueTerms(tokens, acc) ==
    IF tokens = <<>> THEN acc
    ELSE LET t == normalizeText(Head(tokens), diacritics)
         IN UniqueTerms(Tail(tokens), IF Includes(acc, t) THEN acc ELSE Append(acc, t))

RECURSIVE TermPositions(_, _, _)
\* the (0-based) token indices at which term occurs
TermPositions(tokens, term, i) ==
    IF i > Len(tokens) THEN <<>>
    ELSE (IF normalizeText(tokens[i], diacritics) = term THEN <<i - 1>> ELSE <<>>)
         \o TermPositions(tokens, term, i + 1)

FieldTokens(doc, field) == tokenizeWords(FieldContent(doc, field), diacritics)

FieldLengths(doc) == [f \in Range(SearchableFields) |-> Len(FieldTokens(doc, f))]

\* one pass of the inner loop: get or create the posting list, push, bump df
AddPosting(P, term, entry) ==
    LET created == term \notin DOMAIN P.index
        idx0 == IF created THEN MapSet(P.index, term, <<>>) ELSE P.index
        df0 == IF created THEN MapSet(P.df, term, 0) ELSE P.df
    IN [P EXCEPT !.index = MapSet(idx0, term, Append(idx0[term], entry)),
                 !.df = MapSet(df0, term, df0[term] + 1)]

\* a faulty inner loop: only the first distinct term of a field is indexed
AddFirstTermOnly(P, id, field, tokens, terms) ==
    IF terms = <<>> THEN P
    ELSE LET pos == TermPositions(tokens, Head(terms), 1)
         IN AddPosting(P, Head(terms),
                       [docId |-> id, field |-> field, tf |-> Len(pos), positions |-> pos])

RECURSIVE AddFieldPostings(_, _, _, _, _)
\* the inner loop of "Add to inverted index": one posting per distinct term
AddFieldPostings(P, id, field, tokens, terms) ==
    IF terms = <<>> THEN P
    ELSE LET pos == TermPositions(tokens, Head(terms), 1)
             entry == [docId |-> id, field |-> field, tf |-> Len(pos), positions |-> pos]
         IN AddFieldPostings(AddPosting(P, Head(terms), entry), id, field, tokens, Tail(terms))

RECURSIVE AddDocPostings(_, _, _)
AddDocPostings(P, pdoc, fields) ==
    IF fields = <<>> THEN P
    ELSE LET tokens == FieldTokens(pdoc, Head(fields))
         IN AddDocPostings(
                AddFieldPostings(P, pdoc.id, Head(fields), tokens, UniqueTerms(tokens, <<>>)),
                pdoc, Tail(fields))

\* a faulty remove: a term whose posting list becomes empty is kept
RemoveEntriesKeepsTerms(P, id) ==
    [P EXCEPT
        !.index = [t \in DOMAIN P.index |-> SelectSeq(P.index[t], LAMBDA e : e.docId # id)],
        !.docs = DocsDelete(P.docs, id),
        !.df = [t \in DOMAIN P.df |->
                   IF t \in DOMAIN P.index
                   THEN Len(SelectSeq(P.index[t], LAMBDA e : e.docId # id))
                   ELSE P.df[t]]]

\* remove's work on docs, index and df for a known id
RemoveEntries(P, id) ==
    LET filtered(t) == SelectSeq(P.index[t], LAMBDA e : e.docId # id)
        changed == {t \in DOMAIN P.index : Len(filtered(t)) # Len(P.index[t])}
        deleted == {t \in changed : Len(filtered(t)) = 0}
    IN [P EXCEPT
           !.index = [t \in (DOMAIN P.index) \ deleted |->
                         IF t \in changed THEN filtered(t) ELSE P.index[t]],
           !.docs = DocsDelete(P.docs, id),
           !.df = [t \in ((DOMAIN P.df) \ deleted) \cup (changed \ deleted) |->
                         IF t \in changed THEN Len(filtered(t)) ELSE P.df[t]]]

\* a faulty remove: without `this.totalDocs--`
removeKeepsCount(P, id) ==
    IF ~DocsHas(P.docs, id) THEN P ELSE RemoveEntries(P, id)

\* a faulty remove: the document's posting entries stay in the index
removeKeepsPostings(P, id) ==
    IF ~DocsHas(P.docs, id) THEN P
    ELSE [P EXCEPT !.docs = DocsDelete(P.docs, id), !.totalDocs = P.totalDocs - 1]

\* remove(id): a no-op for an unknown id
remove(P, id) ==
    IF ~DocsHas(P.docs, id) THEN P
    ELSE LET P1 == RemoveEntries(P, id)
         IN [P1 EXCEPT !.totalDocs = P.totalDocs - 1]

\* a faulty upsert: the existing document is not removed first
upsertKeepsExisting(P, doc) == P

\* upsert, up to its await: remove the existing document if present
upsertRemoveExisting(P, doc) ==
    IF DocsHas(P.docs, doc.id) THEN remove(P, doc.id) ELSE P

\* a faulty limit check: one document too many gets in
upsertLimitOffByOne(P) == P.totalDocs > P.options.maxDocs

\* upsert's document limit check
upsertLimitReached(P) == P.totalDocs >= P.options.maxDocs

\* upsert, after the limit check: store the metadata, add the postings, count
upsertInsert(P, doc) ==
    LET pdoc == ProcessedDoc(doc, P.options.maxBodyLength)
        meta == [id |-> doc.id, doc |-> pdoc, fieldLengths |-> FieldLengths(pdoc)]
        P1 == [P EXCEPT !.docs = DocsSet(P.docs, doc.id, meta)]
        P2 == AddDocPostings(P1, pdoc, SearchableFields)
    IN [P2 EXCEPT !.totalDocs = P2.totalDocs + 1]

\* upsert run without interruption; a throw leaves the state reached so far
upsert(P, doc) ==
    LET P1 == upsertRemoveExisting(P, doc)
    IN IF upsertLimitReached(P1) THEN P1 ELSE upsertInsert(P1, doc)

upsertThrows(P, doc) == upsertLimitReached(upsertRemoveExisting(P, doc))

clear(P) == NewProvider(P.options)

RECURSIVE UpsertEach(_, _)
\* `for (const doc of docs) await this.upsert(doc)`: the provider after the
\* loop and whether an upsert threw (the loop ends at the first throw)
UpsertEach(P, ds) ==
    IF ds = <<>> THEN [provider |-> P, error |-> FALSE]
    ELSE IF Len(ds) = 1
    THEN [provider |-> upsert(P, ds[1]), error |-> upsertThrows(P, ds[1])]
    ELSE LET half == Len(ds) \div 2
             first == UpsertEach(P, SubSeq(ds, 1, half))
         IN IF first.error THEN first
            ELSE UpsertEach(first.provider, SubSeq(ds, half + 1, Len(ds)))

\* indexAll: clear, then upsert each document, stopping at the first throw
indexAll(P, ds) == UpsertEach(clear(P), ds).provider

indexAllThrows(P, ds) == UpsertEach(clear(P), ds).error

(***************************************************************************)
(* Scorer (scoreDoc and its helpers).  A score is an integer number of     *)
(* 1/SCALE units; the documents and queries of the model are chosen so     *)
(* that every quotient below is exact.  Time is counted in days.           *)
(***************************************************************************)
SCALE == 16 * 9 * 5

\* DEFAULT_SCORER_CONFIG.recencyHalfLife
recencyHalfLife == 30

\* Date.now(), in days: two half-lives after day 0
Now == 2 * recencyHalfLife

\* DEFAULT_SCORER_CONFIG.weights, doubled (1.5 is 3 halves)
Weights2 ==
    [title |-> 8, headings |-> 4, path |-> 3, tags |-> 3, symbols |-> 3, body |-> 2,
     recency |-> 1]

Min3(a, b, c) == Min2(a, Min2(b, c))

Abs(n) == IF n < 0 THEN 0 - n ELSE n

RECURSIVE Pow2(_)
Pow2(k) == IF k <= 0 THEN 1 ELSE 2 * Pow2(k - 1)

RECURSIVE DLRow(_, _, _, _, _, _)
\* row i of the distance matrix; acc holds its columns 0..Len(acc)-1,
\* prev is row i-1 and prev2 row i-2 (column j is element j+1)
DLRow(s1, s2, i, prev, prev2, acc) ==
    LET j == Len(acc)
    IN IF j > Len(s2) THEN acc
       ELSE LET cost == IF s1[i] = s2[j] THEN 0 ELSE 1
                base == Min3(prev[j + 1] + 1, acc[j] + 1, prev[j] + cost)
                cell == IF i > 1 /\ j > 1 /\ s1[i] = s2[j - 1] /\ s1[i - 1] = s2[j]
                        THEN Min2(base, prev2[j - 1] + cost)
                        ELSE base
            IN DLRow(s1, s2, i, prev, prev2, Append(acc, cell))

RECURSIVE DLRows(_, _, _, _, _)
DLRows(s1, s2, i, prev, prev2) ==
    IF i > Len(s1) THEN prev[Len(s2) + 1]
    ELSE DLRows(s1, s2, i + 1, DLRow(s1, s2, i, prev, prev2, <<i>>), prev)

damerauLevenshtein(s1, s2, maxDistance) ==
    IF Abs(Len(s1) - Len(s2)) > maxDistance THEN maxDistance + 1
    ELSE Min2(DLRows(s1, s2, 1, [j \in 1..(Len(s2) + 1) |-> j - 1], <<>>), maxDistance + 1)

scoreToken(query, token) ==
    IF StartsWith(token, query) THEN SCALE
    ELSE LET distance == damerauLevenshtein(query, token, 2)
             maxLength == Max2(Len(query), Len(token))
         IN IF distance > 2 THEN 0
            ELSE Max2(0, SCALE - (distance * SCALE) \div maxLength)

RECURSIVE BestTokenScore(_, _, _)
\* the greatest scoreToken of the term over the field's tokens (0 when none is positive)
BestTokenScore(term, tokens, best) ==
    IF tokens = <<>> THEN best
    ELSE BestTokenScore(term, Tail(tokens), Max2(best, scoreToken(term, Head(tokens))))

RECURSIVE SumTermScores(_, _)
SumTermScores(terms, tokens) ==
    IF terms = <<>> THEN 0
    ELSE BestTokenScore(normalizeText(Head(terms), diacritics), tokens, 0)
         + SumTermScores(Tail(terms), tokens)

\* scoreField(...).score
scoreField(fieldValue, terms) ==
    IF terms = <<>> THEN 0
    ELSE LET fieldTokens == tokenizeWords(normalizeText(fieldValue, diacritics), diacritics)
         IN IF fieldTokens = <<>> THEN 0
            ELSE SumTermScores(terms, fieldTokens) \div Len(terms)

RECURSIVE CountMatches(_, _, _)
\* the number of matches String.prototype.match finds for a literal pattern with flag g
CountMatches(needle, hay, from) ==
    IF from + Len(needle) > Len(hay) THEN 0
    ELSE IF SubSeq(hay, from + 1, from + Len(needle)) = needle
         THEN 1 + CountMatches(needle, hay, from + Len(needle))
         ELSE CountMatches(needle, hay, from + 1)

RECURSIVE scorePhrases(_, _)
scorePhrases(doc, phrases) ==
    IF phrases = <<>> THEN 0
    ELSE LET normalizedPhrase == normalizeText(Head(phrases), diacritics)
             titleMatches == CountMatches(normalizedPhrase, normalizeText(doc.title, diacritics), 0)
             bodyMatches == CountMatches(normalizedPhrase, normalizeText(doc.body, diacritics), 0)
         IN (titleMatches + bodyMatches) * (SCALE \div 4) + scorePhrases(doc, Tail(phrases))

\* 0.5 * exp(-ageDays * ln 2 / halfLifeDays), clamped to [0, 0.5]; whole half-lives only
computeRecencyBonus(mtime, halfLifeDays) ==
    LET ageDays == Now - mtime
    IN IF ageDays <= 0 THEN SCALE \div 2
       ELSE (SCALE \div 2) \div Pow2(ageDays \div halfLifeDays)

\* the text isExcluded searches
SearchableText(doc) ==
    JoinSp(<<doc.title, JoinSp(doc.path), JoinSp(doc.tags), JoinSp(doc.headings),
             JoinSp(doc.symbols), doc.body>>)

isExcluded(doc, excludes) ==
    /\ excludes # <<>>
    /\ \E k \in 1..Len(excludes) :
          IsSubstring(normalizeText(excludes[k], diacritics),
                      normalizeText(SearchableText(doc), diacritics))

\* scoreDoc(...).score for a document that is not excluded
scoreDocScore(doc, query) ==
    ( Weights2.title * scoreField(doc.title, query.terms)
    + Weights2.headings * scoreField(JoinSp(doc.headings), query.terms)
    + Weights2.path * scoreField(JoinSp(doc.path), query.terms)
    + Weights2.tags * scoreField(JoinSp(doc.tags), query.terms)
    + Weights2.symbols * scoreField(JoinSp(doc.symbols), query.terms)
    + Weights2.body * scoreField(doc.body, query.terms) ) \div 2
    + scorePhrases(doc, query.phrases)
    + (Weights2.recency * computeRecencyBonus(doc.mtime, recencyHalfLife)) \div 2

\* scoreDoc returns null for an excluded document
scoreDocIsNull(doc, query) == isExcluded(doc, query.excludes)

(***************************************************************************)
(* min-heap.ts: the heap is its items array (element 1 is items[0])        *)
(***************************************************************************)
\* createSearchResultHeap's comparator
compare(a, b) == a.score - b.score

swap(items, i, j) == [items EXCEPT ![i] = items[j], ![j] = items[i]]

RECURSIVE heapifyUp(_, _)
\* index is 0-based, as in the source
heapifyUp(items, idx) ==
    IF idx <= 0 THEN items
    ELSE LET parentIndex == (idx - 1) \div 2
         IN IF compare(items[idx + 1], items[parentIndex + 1]) >= 0 THEN items
            ELSE heapifyUp(swap(items, idx + 1, parentIndex + 1), parentIndex)

RECURSIVE heapifyDown(_, _)
heapifyDown(items, idx) ==
    LET leftChild == 2 * idx + 1
        rightChild == 2 * idx + 2
        m1 == IF leftChild < Len(items) /\ compare(items[leftChild + 1], items[idx + 1]) < 0
              THEN leftChild ELSE idx
        minIndex == IF rightChild < Len(items) /\ compare(items[rightChild + 1], items[m1 + 1]) < 0
                    THEN rightChild ELSE m1
    IN IF minIndex = idx THEN items
       ELSE heapifyDown(swap(items, idx + 1, minIndex + 1), minIndex)

\* MinHeap.push's return value
pushAccepts(items, maxSize, item) ==
    ~(maxSize > 0 /\ Len(items) >= maxSize /\ compare(item, items[1]) <= 0)

\* a faulty push: an item equal to the minimum replaces it
pushReplacesOnTie(items, maxSize, item) ==
    IF maxSize > 0 /\ Len(items) >= maxSize
    THEN IF compare(item, items[1]) < 0 THEN items
         ELSE heapifyDown([items EXCEPT ![1] = item], 0)
    ELSE heapifyUp(Append(items, item), Len(items))

\* MinHeap.push's effect on items
push(items, maxSize, item) ==
    IF maxSize > 0 /\ Len(items) >= maxSize
    THEN IF compare(item, items[1]) <= 0 THEN items
         ELSE heapifyDown([items EXCEPT ![1] = item], 0)
    ELSE heapifyUp(Append(items, item), Len(items))

\* MinHeap.pop's effect on items
pop(items) ==
    IF Len(items) <= 1 THEN <<>>
    ELSE heapifyDown([SubSeq(items, 1, Len(items) - 1) EXCEPT ![1] = items[Len(items)]], 0)

RECURSIVE extractAll(_)
\* the items in pop order (smallest first)
extractAll(items) ==
    IF items = <<>> THEN <<>> ELSE <<items[1]>> \o extractAll(pop(items))

RECURSIVE InsertDesc(_, _)
InsertDesc(sorted, r) ==
    IF sorted = <<>> THEN <<r>>
    ELSE IF Head(sorted).score >= r.score THEN <<Head(sorted)>> \o InsertDesc(Tail(sorted), r)
    ELSE <<r>> \o sorted

RECURSIVE SortDesc(_, _)
\* Array.prototype.sort((a, b) => b.score - a.score): stable, descending by score
SortDesc(rs, acc) ==
    IF rs = <<>> THEN acc ELSE SortDesc(Tail(rs), InsertDesc(acc, Head(rs)))

(***************************************************************************)
(* BuiltInProvider: query resolution.  A parsed query is                   *)
(* [terms, phrases, excludes, orGroups, filters, regex]; regex is <<>>     *)
(* when absent and <<[source, flags]>> when present.  A regex source is    *)
(* a literal text; the character "[" makes it fail to compile.             *)
(***************************************************************************)
isEmpty(q) ==
    Len(q.terms) = 0 /\ Len(q.phrases) = 0 /\ Len(q.orGroups) = 0 /\ q.regex = <<>>

\* result.score = results.length - index
RescoreByRank(rs, n, i) ==
    [k \in 1..(Len(rs) - i + 1) |-> [id |-> rs[k + i - 1].id, score |-> n - (k + i - 2)]]

\* a faulty getRecentDocuments: without the sort by mtime
getRecentUnsorted(P, limit) ==
    Slice(RescoreByRank([i \in 1..Len(P.docs) |->
                            [id |-> P.docs[i].id, score |-> P.docs[i].doc.mtime]],
                        Len(P.docs), 1), limit)

getRecentDocuments(P, limit) ==
    LET results == [i \in 1..Len(P.docs) |-> [id |-> P.docs[i].id, score |-> P.docs[i].doc.mtime]]
        sorted == SortDesc(results, <<>>)
    IN Slice(RescoreByRank(sorted, Len(sorted), 1), limit)

\* Set.prototype.add for each id of ids, on an insertion-ordered set: the ids
\* not in the set yet are appended in the order of their first occurrence
AddIds(set, ids) ==
    LET isNew(i) == ~Includes(set, ids[i]) /\ \A j \in 1..(i - 1) : ids[j] # ids[i]
        added == {i \in 1..Len(ids) : isNew(i)}
        nth(k) == CHOOSE i \in added : Cardinality({j \in added : j < i}) = k - 1
    IN set \o [k \in 1..Cardinality(added) |-> ids[nth(k)]]

PostingDocIds(list) == [i \in 1..Len(list) |-> list[i].docId]

RECURSIVE GroupSet(_, _, _)
\* the union of the posting lists of an or-group's terms
GroupSet(P, orGroup, acc) ==
    IF orGroup = <<>> THEN acc
    ELSE LET normalized == normalizeText(Head(orGroup), diacritics)
         IN GroupSet(P, Tail(orGroup),
                     IF normalized \in DOMAIN P.index
                     THEN AddIds(acc, PostingDocIds(P.index[normalized]))
                     ELSE acc)

RECURSIVE GroupCandidates(_, _)
\* one id set per or-group that has any posting
GroupCandidates(P, orGroups) ==
    IF orGroups = <<>> THEN <<>>
    ELSE LET groupSet == GroupSet(P, Head(orGroups), <<>>)
         IN (IF Len(groupSet) > 0 THEN <<groupSet>> ELSE <<>>)
            \o GroupCandidates(P, Tail(orGroups))

RECURSIVE TermCandidates(_, _)
\* one id set per term that has a posting list
TermCandidates(P, terms) ==
    IF terms = <<>> THEN <<>>
    ELSE LET normalized == normalizeText(Head(terms), diacritics)
         IN (IF normalized \in DOMAIN P.index
             THEN <<AddIds(<<>>, PostingDocIds(P.index[normalized]))>>
             ELSE <<>>)
            \o TermCandidates(P, Tail(terms))

RECURSIVE IntersectAll(_, _)
\* start with the first set, then delete what a later set lacks
IntersectAll(cands, sets) ==
    IF sets = <<>> THEN cands
    ELSE IntersectAll(FilterSeq(cands, Range(Head(sets))), Tail(sets))

AllDocIds(P) == [i \in 1..Len(P.docs) |-> P.docs[i].id]

gatherCandidates(P, q) ==
    LET sets == IF Len(q.orGroups) > 0 THEN GroupCandidates(P, q.orGroups)
                ELSE TermCandidates(P, q.terms)
        c1 == IF Len(sets) > 0 THEN IntersectAll(Head(sets), Tail(sets)) ELSE <<>>
        c2 == IF Len(c1) = 0 /\ Len(q.phrases) > 0 THEN AllDocIds(P) ELSE c1
    IN IF Len(c2) = 0 /\ (Len(q.filters.tag) > 0 \/ Len(q.filters.path) > 0
                          \/ Len(q.filters.in) > 0)
       THEN AllDocIds(P)
       ELSE c2

\* new RegExp(source, flags) throws
RegexThrows(regexSpec) == Includes(regexSpec.source, "[")

\* the first match of the literal source in text at or after lastIndex:
\* its end offset, or -1 when there is none
RegexExec(regexSpec, text, lastIndex) ==
    LET fold(t) == IF Includes(regexSpec.flags, "i")
                   THEN [k \in 1..Len(t) |-> ToLowerCase(t[k])] ELSE t
        src == fold(regexSpec.source)
        hay == fold(text)
        hits == {k \in lastIndex..(Len(hay) - Len(src)) : SubSeq(hay, k + 1, k + Len(src)) = src}
    IN IF hits = {} THEN 0 - 1
       ELSE (CHOOSE k \in hits : \A h \in hits : k <= h) + Len(src)

\* whether the document matches the regex at all
RegexMatchesDoc(regexSpec, doc) ==
    RegexExec(regexSpec, doc.title, 0) >= 0 \/ RegexExec(regexSpec, doc.body, 0) >= 0

RECURSIVE RegexFilterLoop(_, _, _, _)
\* the loop of applyRegexFilter; the regex has flag g, so test() starts at
\* lastIndex and leaves lastIndex at the end of its match (0 after a failure)
RegexFilterLoop(P, regexSpec, topK, lastIndex) ==
    IF topK = <<>> THEN <<>>
    ELSE IF ~DocsHas(P.docs, Head(topK).id) THEN RegexFilterLoop(P, regexSpec, Tail(topK), lastIndex)
    ELSE LET doc == DocsGet(P.docs, Head(topK).id).doc
             t1 == RegexExec(regexSpec, doc.title, lastIndex)
             t2 == RegexExec(regexSpec, doc.body, 0)
         IN IF t1 >= 0 THEN <<Head(topK)>> \o RegexFilterLoop(P, regexSpec, Tail(topK), t1)
            ELSE IF t2 >= 0 THEN <<Head(topK)>> \o RegexFilterLoop(P, regexSpec, Tail(topK), t2)
            ELSE RegexFilterLoop(P, regexSpec, Tail(topK), 0)

applyRegexFilter(P, results, regexSpec, limit) ==
    IF RegexThrows(regexSpec) THEN Slice(results, limit)
    ELSE Slice(RegexFilterLoop(P, regexSpec, Slice(results, P.options.regexCandidateK), 0), limit)

(***************************************************************************)
(* query-parser.ts.  The input is a text over an alphabet without the      *)
(* backslash; the only white space is the blank.  An absent filter list is  *)
(* <<>>, an absent field prefix is "", an absent regex is <<>>.             *)
(***************************************************************************)
\* String.prototype.toUpperCase on the letters the model uses
ToUpperCase(c) ==
    CASE c = "a" -> "A"
      [] c = "b" -> "B"
      [] c = "o" -> "O"
      [] c = "r" -> "R"
      [] c = "i" -> "I"
      [] OTHER -> c

RECURSIVE TrimStart(_)
TrimStart(s) == IF s # <<>> /\ Head(s) = " " THEN TrimStart(Tail(s)) ELSE s

\* String.prototype.trim
Trim(s) == Reverse(TrimStart(Reverse(TrimStart(s))))

\* the offset (from 1) of the first c in s at or after offset from, 0 if none
IndexFrom(s, c, from) ==
    LET hits == {k \in from..Len(s) : s[k] = c}
    IN IF hits = {} THEN 0 ELSE CHOOSE k \in hits : \A h \in hits : k <= h

RECURSIVE PhraseMatches(_, _)
\* remaining.matchAll(/"([^"]+)"/g): the quoted, non-empty texts from offset i on
PhraseMatches(s, i) ==
    IF i > Len(s) THEN <<>>
    ELSE IF s[i] # "\"" THEN PhraseMatches(s, i + 1)
    ELSE IF IndexFrom(s, "\"", i + 1) > i + 1
    THEN <<SubSeq(s, i + 1, IndexFrom(s, "\"", i + 1) - 1)>>
            \o PhraseMatches(s, IndexFrom(s, "\"", i + 1) + 1)
    ELSE PhraseMatches(s, i + 1)

RECURSIVE RemoveQuoted(_, _)
\* remaining.replace(/"[^"]*"/g, ''), from offset i on
RemoveQuoted(s, i) ==
    IF i > Len(s) THEN <<>>
    ELSE IF s[i] = "\"" /\ IndexFrom(s, "\"", i + 1) > 0
    THEN RemoveQuoted(s, IndexFrom(s, "\"", i + 1) + 1)
    ELSE <<s[i]>> \o RemoveQuoted(s, i + 1)

\* remaining.match(/\/((?:\\\/|[^\/])+?)\/(i?)/): the leftmost slash that is
\* followed by one or more characters other than a slash and then a slash;
\* <<>> when there is none, else <<[index, pattern, flags, last]>>
RegexMatch(s) ==
    LET starts == {k \in 1..Len(s) : s[k] = "/" /\ IndexFrom(s, "/", k + 1) > k + 1}
        k == CHOOSE k \in starts : \A h \in starts : k <= h
        e == IndexFrom(s, "/", k + 1)
    IN IF starts = {} THEN <<>>
       ELSE <<[index |-> k,
               pattern |-> SubSeq(s, k + 1, e - 1),
               flags |-> IF e < Len(s) /\ s[e + 1] = "i" THEN <<"i">> ELSE <<>>,
               last |-> IF e < Len(s) /\ s[e + 1] = "i" THEN e + 1 ELSE e]>>

RECURSIVE SplitWs(_, _, _)
\* remaining.split(/\s+/).filter(token => token.length > 0)
SplitWs(s, cur, acc) ==
    IF s = <<>> THEN (IF cur = <<>> THEN acc ELSE Append(acc, cur))
    ELSE IF Head(s) = " " THEN SplitWs(Tail(s), <<>>, IF cur = <<>> THEN acc ELSE Append(acc, cur))
    ELSE SplitWs(Tail(s), Append(cur, Head(s)), acc)

\* token.toUpperCase() === 'OR'
IsOr(token) == [k \in 1..Len(token) |-> ToUpperCase(token[k])] = <<"O", "R">>

NextIsOr(tokens, i) == i + 1 <= Len(tokens) /\ IsOr(tokens[i + 1])

\* the locals of the token loop before its first iteration
NewLoop ==
    [terms |-> <<>>, excludes |-> <<>>, orGroups |-> <<>>, currentOrGroup |-> <<>>,
     inOrGroup |-> FALSE, fieldPrefix |-> "", filters |-> [tag |-> <<>>, path |-> <<>>, in |-> <<>>]]

\* the end of an iteration for a regular term: close the or-group when the
\* next token is not OR
CloseGroup(L, tokens, i) ==
    IF L.inOrGroup /\ ~NextIsOr(tokens, i)
    THEN [L EXCEPT !.orGroups = IF Len(L.currentOrGroup) >= 2 THEN Append(@, L.currentOrGroup) ELSE @,
                   !.terms = IF Len(L.currentOrGroup) = 1 THEN Append(@, L.currentOrGroup[1]) ELSE @,
                   !.currentOrGroup = <<>>,
                   !.inOrGroup = FALSE]
    ELSE L

\* one iteration of the token loop, for tokens[i]
ClassifyToken(L, tokens, i) ==
    LET token == tokens[i] IN
    IF IsOr(token)
    THEN IF ~L.inOrGroup /\ Len(L.terms) > 0
         THEN [L EXCEPT !.currentOrGroup = <<L.terms[Len(L.terms)]>>,
                        !.terms = SubSeq(@, 1, Len(@) - 1),
                        !.inOrGroup = TRUE]
         ELSE L
    ELSE IF StartsWith(token, <<"-">>) /\ Len(token) > 1
    THEN [L EXCEPT !.excludes = Append(@, Tail(token))]
    ELSE IF token = <<"#">> THEN [L EXCEPT !.fieldPrefix = "headings"]
    ELSE IF token = <<"@">> THEN [L EXCEPT !.fieldPrefix = "symbols"]
    ELSE IF StartsWith(token, <<"t", "a", "g", ":">>)
    THEN IF Len(token) > 4
         THEN [L EXCEPT !.filters.tag = Append(@, SubSeq(token, 5, Len(token)))] ELSE L
    ELSE IF StartsWith(token, <<"#">>) /\ Len(token) > 1
    THEN [L EXCEPT !.filters.tag = Append(@, Tail(token))]
    ELSE IF StartsWith(token, <<"p", "a", "t", "h", ":">>)
    THEN IF Len(token) > 5
         THEN [L EXCEPT !.filters.path = Append(@, SubSeq(token, 6, Len(token)))] ELSE L
    ELSE IF StartsWith(token, <<"i", "n", ":">>)
    THEN IF Len(token) > 3
         THEN [L EXCEPT !.filters.in = Append(@, SubSeq(token, 4, Len(token)))] ELSE L
    ELSE CloseGroup(
            IF L.inOrGroup THEN [L EXCEPT !.currentOrGroup = Append(@, token)]
            ELSE IF NextIsOr(tokens, i)
            THEN [L EXCEPT !.currentOrGroup = <<token>>, !.inOrGroup = TRUE]
            ELSE [L EXCEPT !.terms = Append(@, token)],
            tokens, i)

\* a faulty end of the loop: a remaining or-group of one term is emitted as a
\* group
FinishLoopKeepsSingle(L) ==
    [L EXCEPT !.orGroups = IF L.inOrGroup /\ Len(L.currentOrGroup) >= 1
                           THEN Append(@, L.currentOrGroup) ELSE @]

\* after the loop: "add any remaining OR group"
FinishLoop(L) ==
    [L EXCEPT !.orGroups = IF L.inOrGroup /\ Len(L.currentOrGroup) >= 2
                           THEN Append(@, L.currentOrGroup) ELSE @,
              !.terms = IF L.inOrGroup /\ Len(L.currentOrGroup) = 1
                        THEN Append(@, L.currentOrGroup[1]) ELSE @]

RECURSIVE TokenLoop(_, _, _)
\* the token loop from iteration i on
TokenLoop(L, tokens, i) ==
    IF i <= Len(tokens) THEN TokenLoop(ClassifyToken(L, tokens, i), tokens, i + 1)
    ELSE FinishLoop(L)

\* QueryParserSettings.commands
commands == [enableCommandsPrefix |-> TRUE, commandsPrefixChar |-> <<">">>]

isCommandsQuery(input) ==
    commands.enableCommandsPrefix /\ StartsWith(input, commands.commandsPrefixChar)

\* the text left after the phrase step
AfterPhrases(trimmed) == Trim(RemoveQuoted(trimmed, 1))

\* the text left after the regex step
AfterRegex(remaining) ==
    IF RegexMatch(remaining) = <<>> THEN remaining
    ELSE Trim(SubSeq(remaining, 1, RegexMatch(remaining)[1].index - 1)
              \o SubSeq(remaining, RegexMatch(remaining)[1].last + 1, Len(remaining)))

\* files mode: phrases, regex, then the token loop
ParseFiles(input, remaining, L) ==
    [query |-> [raw |-> input, mode |-> "files",
                terms |-> L.terms,
                phrases |-> PhraseMatches(Trim(input), 1),
                excludes |-> L.excludes,
                orGroups |-> L.orGroups,
                filters |-> [tag |-> L.filters.tag, path |-> L.filters.path,
                             in |-> L.filters.in, field |-> L.fieldPrefix],
                regex |-> IF RegexMatch(remaining) # <<>>
                             /\ ~RegexThrows([source |-> RegexMatch(remaining)[1].pattern,
                                              flags |-> RegexMatch(remaining)[1].flags])
                          THEN <<[source |-> RegexMatch(remaining)[1].pattern,
                                  flags |-> RegexMatch(remaining)[1].flags]>>
                          ELSE <<>>],
     errors |-> IF RegexMatch(remaining) # <<>>
                   /\ RegexThrows([source |-> RegexMatch(remaining)[1].pattern,
                                   flags |-> RegexMatch(remaining)[1].flags])
                THEN <<[type |-> "regex", position |-> RegexMatch(remaining)[1].index - 1]>>
                ELSE <<>>]

parseQueryWithErrors(input) ==
    IF isCommandsQuery(Trim(input))
    THEN [query |-> [raw |-> input, mode |-> "commands",
                     terms |-> IF Trim(SubSeq(Trim(input), Len(commands.commandsPrefixChar) + 1,
                                              Len(Trim(input)))) # <<>>
                               THEN <<Trim(SubSeq(Trim(input), Len(commands.commandsPrefixChar) + 1,
                                                  Len(Trim(input))))>>
                               ELSE <<>>,
                     phrases |-> <<>>, excludes |-> <<>>, orGroups |-> <<>>,
                     filters |-> [tag |-> <<>>, path |-> <<>>, in |-> <<>>, field |-> ""],
                     regex |-> <<>>],
          errors |-> <<>>]
    ELSE ParseFiles(input, AfterPhrases(Trim(input)),
                    TokenLoop(NewLoop, SplitWs(AfterRegex(AfterPhrases(Trim(input))), <<>>, <<>>), 1))

\* no call of the parser yet
NewParser == [called |-> FALSE, tokens |-> <<>>, input |-> <<>>, result |-> <<>>]

(***************************************************************************)
(* queryStream as a generator.  A frame is the generator's local state     *)
(* while it is suspended; Advance resumes it against the provider P as P   *)
(* is at that moment and runs it to its next yield (out = <<result>>) or   *)
(* to its end (phase = "done", out = <<>>).                                *)
(***************************************************************************)
\* the literal of `processedCount % 100 === 0`
YieldEvery == 100

\* the literal of `Math.min(5, Math.floor(limit / 2))`
IntermediateTop == 5

\* the frame of a generator that has not run yet
StreamFrame(q, limit) ==
    [q |-> q, limit |-> limit, phase |-> "start", candidates |-> <<>>, next |-> 1,
     heap |-> <<>>, yieldedIds |-> {}, processedCount |-> 0, pending |-> <<>>,
     out |-> <<>>]

\* the yield block: entered when processedCount % 100 === 0 and the heap
\* has items; pending is `toArray().sort(...).slice(0, min(5, limit / 2))`
YieldBlock(f) ==
    IF f.processedCount % YieldEvery = 0 /\ Len(f.heap) > 0
    THEN [f EXCEPT !.phase = "intermediate",
                   !.pending = Slice(SortDesc(f.heap, <<>>),
                                     Min2(IntermediateTop, f.limit \div 2))]
    ELSE f

\* `if (result && result.score > 0) topResults.push(result)`
PushScored(heap, maxSize, docId, isNull, score) ==
    IF ~isNull /\ score > 0 THEN push(heap, maxSize, [id |-> docId, score |-> score])
    ELSE heap

\* the loop body for a candidate whose metadata docs still has
ScoreDocument(f, docId, doc) ==
    YieldBlock([f EXCEPT !.next = f.next + 1,
                         !.heap = PushScored(f.heap, f.limit, docId,
                                             scoreDocIsNull(doc, f.q), scoreDocScore(doc, f.q)),
                         !.processedCount = f.processedCount + 1])

\* one pass of the body of `for (const docId of candidates)`: the frame after
\* it, in phase "intermediate" when the pass reached the yield block
ScoreCandidate(P, f) ==
    IF f.phase # "scoring" \/ f.next > Len(f.candidates) THEN f
    ELSE IF ~DocsHas(P.docs, f.candidates[f.next]) THEN [f EXCEPT !.next = f.next + 1]
    ELSE ScoreDocument(f, f.candidates[f.next], DocsGet(P.docs, f.candidates[f.next]).doc)

RECURSIVE ScoreCandidates(_, _, _)
\* the passes left of those that started with n to go, given the frame after
\* the first half of them
ScoreRest(P, half, n) ==
    IF half.phase # "scoring" THEN half ELSE ScoreCandidates(P, half, n - (n \div 2))

\* up to n passes of the candidate loop, stopping at the yield block
ScoreCandidates(P, f, n) ==
    IF n <= 0 THEN f
    ELSE IF n = 1 THEN ScoreCandidate(P, f)
    ELSE ScoreRest(P, ScoreCandidates(P, f, n \div 2), n)

RECURSIVE SkipYielded(_, _)
\* drop the leading results whose id has been yielded already
SkipYielded(pending, yieldedIds) ==
    IF pending # <<>> /\ Head(pending).id \in yieldedIds
    THEN SkipYielded(Tail(pending), yieldedIds)
    ELSE pending

\* from the generator's entry to its first loop
Begin(P, f) ==
    IF f.phase # "start" THEN f
    ELSE IF isEmpty(f.q)
    THEN [f EXCEPT !.phase = "recent", !.pending = getRecentDocuments(P, f.limit)]
    ELSE [f EXCEPT !.phase = "scoring", !.candidates = gatherCandidates(P, f.q)]

\* the rest of the candidate loop after the last pass: extract, filter
Finish(P, f) ==
    LET finalResults == Reverse(extractAll(f.heap))
    IN [f EXCEPT !.phase = "final", !.heap = <<>>,
                 !.pending = IF f.q.regex # <<>>
                             THEN applyRegexFilter(P, finalResults, f.q.regex[1], f.limit)
                             ELSE finalResults]

FinishAtEnd(P, f) == IF f.phase = "scoring" THEN Finish(P, f) ELSE f

\* the candidate loop, up to its yield block or through its end
Score(P, f) ==
    IF f.phase # "scoring" THEN f
    ELSE FinishAtEnd(P, ScoreCandidates(P, f, Len(f.candidates) - f.next + 1))

\* a faulty yield: without `yieldedIds.add(result.id)`
EmitForgets(f) ==
    IF f.pending = <<>> THEN [f EXCEPT !.phase = "done", !.out = <<>>]
    ELSE [f EXCEPT !.pending = Tail(f.pending), !.out = <<Head(f.pending)>>]

\* the yield of the next pending result, or the generator's return
Emit(f) ==
    IF f.pending = <<>> THEN [f EXCEPT !.phase = "done", !.out = <<>>]
    ELSE [f EXCEPT !.pending = Tail(f.pending),
                   !.yieldedIds = IF f.phase = "intermediate"
                                  THEN f.yieldedIds \cup {Head(f.pending).id}
                                  ELSE f.yieldedIds,
                   !.out = <<Head(f.pending)>>]

\* the results that pass `if (!yieldedIds.has(result.id))`
Unyielded(f) ==
    IF f.phase \in {"intermediate", "final"}
    THEN [f EXCEPT !.pending = SkipYielded(f.pending, f.yieldedIds)]
    ELSE f

RECURSIVE Advance(_, _)
\* the generator from the frame f1 it has reached: yield, return, or go on
\* with the candidate loop when the yield block had nothing new to yield
Continue(P, f1) ==
    IF f1.phase = "intermediate" /\ f1.pending = <<>>
    THEN Advance(P, [f1 EXCEPT !.phase = "scoring"])
    ELSE IF f1.phase \in {"idle", "done"} THEN [f1 EXCEPT !.out = <<>>]
    ELSE Emit(f1)

\* resume the generator: run it to its next yield or to its end
Advance(P, f) == Continue(P, Unyielded(Score(P, Begin(P, f))))

RECURSIVE StreamAll(_, _, _)
StreamRest(P, f1, acc) ==
    IF f1.out = <<>> THEN acc ELSE StreamAll(P, f1, acc \o f1.out)

\* everything queryStream yields to a consumer that leaves the provider alone
StreamAll(P, f, acc) == StreamRest(P, Advance(P, f), acc)

RECURSIVE QueryLoop(_, _, _, _)
\* `results.push(result); if (results.length >= limit) break`
QueryPush(P, f1, results, limit) ==
    IF f1.out = <<>> THEN results
    ELSE IF Len(results) + 1 >= limit THEN results \o f1.out
    ELSE QueryLoop(P, f1, results \o f1.out, limit)

\* query's for-await loop over queryStream
QueryLoop(P, f, results, limit) == QueryPush(P, Advance(P, f), results, limit)

\* query(q, {limit}) against a provider nobody changes meanwhile
query(P, q, limit) ==
    IF isEmpty(q) THEN getRecentDocuments(P, limit)
    ELSE QueryLoop(P, StreamFrame(q, limit), <<>>, limit)

\* queryStream(q, {limit}) consumed to its end
queryStream(P, q, limit) == StreamAll(P, StreamFrame(q, limit), <<>>)

(***************************************************************************)
(* Inputs: the documents, queries, limits and options the operations are   *)
(* called with.                                                            *)
(***************************************************************************)
Doc(id, title, path, tags, headings, symbols, body, mtime) ==
    [id |-> id, title |-> title, path |-> path, tags |-> tags, headings |-> headings,
     symbols |-> symbols, body |-> body, mtime |-> mtime, size |-> Len(body)]

\* "Ab" / tags [x] / "x ab": a token shared by title and body, mixed case
DocA1 == Doc("a.md", <<"A", "b">>, <<>>, << <<"x">> >>, <<>>, <<>>, <<"x", " ", "a", "b">>, 60)

\* "x" / "x-a bx": the body is longer than the small body cap
DocA2 == Doc("a.md", <<"x">>, <<>>, <<>>, <<>>, <<>>, <<"x", "-", "a", " ", "b", "x">>, 30)

\* "x x" / path [a] / headings [B, x]: a repeated token, no body
DocB1 == Doc("b.md", <<"x", " ", "x">>, << <<"a">> >>, <<>>, << <<"B">>, <<"x">> >>, <<>>, <<>>, 0)

\* "b" / "ab": no token x at all
DocB2 == Doc("b.md", <<"b">>, <<>>, <<>>, <<>>, <<>>, <<"a", "b">>, 60)

\* "-" / symbols [ax]: a title without any token
DocC1 == Doc("c.md", <<"-">>, <<>>, <<>>, <<>>, << <<"a", "x">> >>, <<"X">>, 30)

HotDocs == {DocA1, DocA2, DocB1, DocB2, DocC1}

HotIds == {d.id : d \in HotDocs}

NoFilters == [tag |-> <<>>, path |-> <<>>, in |-> <<>>]

Query(terms, phrases, excludes, orGroups, regex) ==
    [terms |-> terms, phrases |-> phrases, excludes |-> excludes, orGroups |-> orGroups,
     filters |-> NoFilters, regex |-> regex]

QEmpty == Query(<<>>, <<>>, <<>>, <<>>, <<>>)

QTermX == Query(<< <<"x">> >>, <<>>, <<>>, <<>>, <<>>)

QTermsAB == Query(<< <<"a">>, <<"b">> >>, <<>>, <<>>, <<>>, <<>>)

\* x /ab/
QRegex == Query(<< <<"x">> >>, <<>>, <<>>, <<>>, <<[source |-> <<"a", "b">>, flags |-> <<>>]>>)

Queries == {QEmpty, QTermX, QTermsAB, QRegex}

Limits == {0, 1, 2}

\* a small provider, as the tests construct it, and the default one
SmallOptions == [maxDocs |-> 2, maxBodyLength |-> 4, regexCandidateK |-> 2]

DefaultOptions == [maxDocs |-> 50000, maxBodyLength |-> 2 * 1024 * 1024, regexCandidateK |-> 300]

Corpora == {<<DocB1, DocA1>>, <<DocA1, DocA2, DocC1>>}

(***************************************************************************)
(* State and the sequential operations: each call is awaited before the    *)
(* next one starts, so each runs from its first line to its last.          *)
(***************************************************************************)
P == [index |-> index, docs |-> docs, df |-> df, totalDocs |-> totalDocs, options |-> options]

SetProvider(Q) ==
    /\ index' = Q.index
    /\ docs' = Q.docs
    /\ df' = Q.df
    /\ totalDocs' = Q.totalDocs
    /\ options' = Q.options

\* what the caller of the last operation got back: whether it threw and, for a
\* query, the query <<q>>, its limit, the results, and the upserts that were
\* suspended at their await when the query ran
Outcome(op, error, q, limit, results, during) ==
    [op |-> op, error |-> error, q |-> q, limit |-> limit, results |-> results,
     during |-> during]

Done(op, error) == Outcome(op, error, <<>>, 0, <<>>, <<>>)

\* no generator exists
NoStream == [frame |-> [StreamFrame(QEmpty, 0) EXCEPT !.phase = "idle"],
             yielded |-> <<>>, snapshot |-> <<>>]

\* no burst of overlapping calls has been recorded
NoBurst == [base |-> <<>>, ops |-> <<>>, made |-> 0]

\* an AbortController's signal before abort()
NoSignal == [aborted |-> FALSE]

\* new MinHeap(0, compare); pushed and last are history
NewHeap == [maxSize |-> 0, items |-> <<>>, pushed |-> <<>>, last |-> <<>>]

\* a VaultIndex after construction: an empty file cache and body queue, no
\* queue processor, no indexAll and no upsert under way; touched holds the
\* mtime of the files modified since; made, queued, late (a file
\* was queued while the processor ran), split (the queue held more than one
\* batch), removed (the files deleted and given to remove) and last are history
NewIndexer ==
    [touched |-> EmptyMap, fileCache |-> EmptyMap, bodyQueue |-> <<>>,
     isProcessingQueue |-> FALSE,
     processor |-> [phase |-> "none", todo |-> <<>>, running |-> <<>>],
     phase1 |-> [phase |-> "none", todo |-> <<>>, running |-> <<>>],
     upserts |-> <<>>, made |-> 0, queued |-> {}, late |-> FALSE, split |-> FALSE,
     removed |-> {}, flights |-> <<>>, startedAt |-> EmptyMap, last |-> <<>>]

\* the vault, VaultEventHandler and VaultIndex after construction: no file, no
\* pending update, no timer, an empty file cache, no upsert awaiting a read;
\* window, renamed, deleted, atUnload (the paths pending at onunload) and
\* after (the paths upsert was called for after onunload) are history
NewVault ==
    [files |-> {}, pendingUpdates |-> <<>>, updateTimer |-> [armed |-> FALSE, ms |-> 0],
     fileCache |-> {}, reads |-> <<>>,
     window |-> [paths |-> {}, pure |-> TRUE, started |-> <<>>, fired |-> FALSE, repeated |-> FALSE],
     renamed |-> <<>>, deleted |-> {},
     unloaded |-> FALSE, atUnload |-> {}, after |-> {}]

InitWith(opts) ==
    /\ options = opts
    /\ index = EmptyMap
    /\ docs = <<>>
    /\ df = EmptyMap
    /\ totalDocs = 0
    /\ outcome = Done("new", FALSE)
    /\ calls = <<>>
    /\ burst = NoBurst
    /\ stream = NoStream
    /\ signal = NoSignal
    /\ vault = NewVault
    /\ minHeap = NewHeap
    /\ indexer = NewIndexer
    /\ parser = NewParser

Init == \E opts \in {SmallOptions, DefaultOptions} : InitWith(opts)

Upsert(d) ==
    /\ SetProvider(upsert(P, d))
    /\ outcome' = Done("upsert", upsertThrows(P, d))
    /\ UNCHANGED <<calls, burst, stream, signal, vault, minHeap, indexer, parser>>

Remove(id) ==
    /\ SetProvider(remove(P, id))
    /\ outcome' = Done("remove", FALSE)
    /\ UNCHANGED <<calls, burst, stream, signal, vault, minHeap, indexer, parser>>

Clear ==
    /\ SetProvider(clear(P))
    /\ outcome' = Done("clear", FALSE)
    /\ UNCHANGED <<calls, burst, stream, signal, vault, minHeap, indexer, parser>>

IndexAll(ds) ==
    /\ SetProvider(indexAll(P, ds))
    /\ outcome' = Done("indexAll", indexAllThrows(P, ds))
    /\ UNCHANGED <<calls, burst, stream, signal, vault, minHeap, indexer, parser>>

\* a faulty query: the documents it returns leave the index
RunQueryEvicts(q, limit) ==
    /\ outcome' = Outcome("query", FALSE, <<q>>, limit, query(P, q, limit), calls)
    /\ SetProvider(IF query(P, q, limit) = <<>> THEN P
                   ELSE remove(P, query(P, q, limit)[1].id))
    /\ UNCHANGED <<calls, burst, stream, signal, vault, minHeap, indexer, parser>>

RunQuery(q, limit) ==
    /\ outcome' = Outcome("query", FALSE, <<q>>, limit, query(P, q, limit), calls)
    /\ UNCHANGED <<index, docs, df, totalDocs, options, calls, burst, stream, signal, vault, minHeap, indexer, parser>>

RunQueryStream(q, limit) ==
    /\ outcome' = Outcome("queryStream", FALSE, <<q>>, limit, queryStream(P, q, limit), calls)
    /\ UNCHANGED <<index, docs, df, totalDocs, options, calls, burst, stream, signal, vault, minHeap, indexer, parser>>

Next ==
    \/ \E d \in HotDocs : Upsert(d)
    \/ \E id \in HotIds : Remove(id)
    \/ Clear
    \/ \E ds \in Corpora : IndexAll(ds)
    \/ \E q \in Queries, limit \in Limits : RunQuery(q, limit)
    \/ \E q \in Queries, limit \in Limits : RunQueryStream(q, limit)

Spec == Init /\ [][Next]_vars

(***************************************************************************)
(* Overlapping calls.  An async method runs synchronously up to its first  *)
(* await; upsert's only await is `await this.remove(doc.id)`, taken when   *)
(* the id is present, and remove's body has run by the time upsert         *)
(* suspends there.  calls holds the upserts suspended at that await, in    *)
(* the order in which the microtask queue resumes them.  burst records,    *)
(* for the calls that overlap, the provider before the first of them and   *)
(* the calls made.                                                         *)
(***************************************************************************)
MaxBurst == 2

\* the number of calls a behaviour makes (a lost update makes totalDocs and the
\* posting lists grow with every further pair of calls)
MaxCalls == 4

UpsertOp(d) == [kind |-> "upsert", id |-> d.id, doc |-> <<d>>]

RemoveOp(id) == [kind |-> "remove", id |-> id, doc |-> <<>>]

\* the burst after one more call
Record(op) ==
    IF calls = <<>> THEN [base |-> <<P>>, ops |-> <<op>>, made |-> burst.made + 1]
    ELSE [burst EXCEPT !.ops = Append(burst.ops, op), !.made = burst.made + 1]

CanCall ==
    /\ burst.made < MaxCalls
    /\ calls = <<>> \/ Len(burst.ops) < MaxBurst

CallUpsert(d) ==
    /\ CanCall
    /\ burst' = Record(UpsertOp(d))
    /\ IF DocsHas(docs, d.id)
       THEN /\ SetProvider(upsertRemoveExisting(P, d))
            /\ calls' = Append(calls, [doc |-> d, old |-> DocsGet(docs, d.id).doc])
            /\ outcome' = Done("upsert called", FALSE)
       ELSE /\ SetProvider(IF upsertLimitReached(P) THEN P ELSE upsertInsert(P, d))
            /\ calls' = calls
            /\ outcome' = Done("upsert", upsertLimitReached(P))
    /\ UNCHANGED <<stream, signal, vault, minHeap, indexer, parser>>

ResumeUpsert ==
    /\ calls # <<>>
    /\ SetProvider(IF upsertLimitReached(P) THEN P ELSE upsertInsert(P, Head(calls).doc))
    /\ calls' = Tail(calls)
    /\ outcome' = Done("upsert", upsertLimitReached(P))
    /\ UNCHANGED <<burst, stream, signal, vault, minHeap, indexer, parser>>

CallRemove(id) ==
    /\ CanCall
    /\ burst' = Record(RemoveOp(id))
    /\ SetProvider(remove(P, id))
    /\ outcome' = Done("remove", FALSE)
    /\ UNCHANGED <<calls, stream, signal, vault, minHeap, indexer, parser>>

\* with fewer than YieldEvery documents indexed, query's first resumption of the
\* generator scores every candidate and filters before anything else can run
CallQuery(q, limit) ==
    /\ Len(docs) < YieldEvery
    /\ RunQuery(q, limit)

NextInFlight ==
    \/ \E d \in HotDocs : CallUpsert(d)
    \/ ResumeUpsert
    \/ \E id \in HotIds : CallRemove(id)
    \/ \E q \in {QTermX, QTermsAB}, limit \in {2, 3} : CallQuery(q, limit)

SpecInFlight == InitWith(DefaultOptions) /\ [][NextInFlight]_vars

\* the provider after the calls ops, run one after another in the order perm
RECURSIVE RunSerially(_, _, _)
RunSerially(Q, ops, perm) ==
    IF perm = <<>> THEN Q
    ELSE LET op == ops[Head(perm)]
         IN RunSerially(IF op.kind = "upsert" THEN upsert(Q, op.doc[1]) ELSE remove(Q, op.id),
                        ops, Tail(perm))

Orders(n) == {p \in [1..n -> 1..n] : \A i, j \in 1..n : p[i] = p[j] => i = j}

SerialResults(b) == {RunSerially(b.base[1], b.ops, p) : p \in Orders(Len(b.ops))}

(***************************************************************************)
(* A queryStream generator and its consumer, over a corpus large enough    *)
(* for the generator to yield in the middle of its scoring loop.  Between  *)
(* two resumptions of the generator the consumer may call upsert and       *)
(* remove (each awaited).                                                  *)
(***************************************************************************)
BulkSize == 100

BulkId(i) == "n" \o ToString(i) \o ".md"

\* BulkSize documents whose body is "x", all equally old
BulkCorpus == [i \in 1..BulkSize |-> Doc(BulkId(i), <<>>, <<>>, <<>>, <<>>, <<>>, <<"x">>, 0)]

StreamDocs == {DocA2, DocB1, DocB2}

StreamQueries == {QTermX, QRegex}

StreamLimits == {2}

Suspended == stream.frame.phase \notin {"idle", "done"}

\* the consumer's record once the generator has stopped in frame f1
Received(s, f1) == [s EXCEPT !.frame = f1, !.yielded = s.yielded \o f1.out]

StreamStart(q, limit) ==
    /\ stream.frame.phase = "idle"
    /\ stream' = Received([NoStream EXCEPT !.snapshot = <<P>>],
                          Advance(P, StreamFrame(q, limit)))
    /\ outcome' = Outcome("queryStream next", FALSE, <<q>>, limit, <<>>, <<>>)
    /\ UNCHANGED <<index, docs, df, totalDocs, options, calls, burst, signal, vault, minHeap, indexer, parser>>

StreamNext ==
    /\ Suspended
    /\ stream' = Received(stream, Advance(P, stream.frame))
    /\ outcome' = [outcome EXCEPT !.op = "queryStream next"]
    /\ UNCHANGED <<index, docs, df, totalDocs, options, calls, burst, signal, vault, minHeap, indexer, parser>>

StreamEnd ==
    /\ stream.frame.phase = "done"
    /\ stream' = NoStream
    /\ outcome' = Done("queryStream end", FALSE)
    /\ UNCHANGED <<index, docs, df, totalDocs, options, calls, burst, signal, vault, minHeap, indexer, parser>>

NextStream ==
    \/ stream.frame.phase = "idle" /\ IndexAll(BulkCorpus)
    \/ \E d \in StreamDocs : Upsert(d)
    \/ \E id \in {d.id : d \in StreamDocs} : Remove(id)
    \/ \E q \in StreamQueries, limit \in StreamLimits : StreamStart(q, limit)
    \/ StreamNext
    \/ StreamEnd
    \/ \E q \in StreamQueries, limit \in StreamLimits :
          stream.frame.phase = "idle" /\ RunQuery(q, limit)
    \/ \E q \in StreamQueries, limit \in StreamLimits :
          stream.frame.phase = "idle" /\ RunQueryStream(q, limit)

SpecStream == InitWith(DefaultOptions) /\ [][NextStream]_vars

(***************************************************************************)
(* Queries whose QueryOptions carry an AbortSignal.  query and queryStream *)
(* read only opts.limit, so a call with a signal is the call without it;   *)
(* the caller's controller.abort() changes the signal and nothing else.    *)
(***************************************************************************)
SignalDocs == {DocA2, DocB1, DocC1}

SignalQueries == {QTermX, QEmpty}

\* controller.abort()
Abort ==
    /\ ~signal.aborted
    /\ signal' = [aborted |-> TRUE]
    /\ outcome' = Done("abort", FALSE)
    /\ UNCHANGED <<index, docs, df, totalDocs, options, calls, burst, stream, vault, minHeap, indexer, parser>>

NextSignal ==
    \/ \E d \in SignalDocs : stream.frame.phase = "idle" /\ Upsert(d)
    \/ \E q \in SignalQueries, limit \in StreamLimits : RunQuery(q, limit)
    \/ \E q \in SignalQueries, limit \in StreamLimits : StreamStart(q, limit)
    \/ StreamNext
    \/ StreamEnd
    \/ Abort

SpecSignal == InitWith(DefaultOptions) /\ [][NextSignal]_vars

(***************************************************************************)
(* VaultEventHandler and VaultIndex.  vault.files is the set of paths the  *)
(* vault holds; vault.reads lists the VaultIndex.upsert calls suspended at *)
(* `await this.app.vault.read(file)`; the provider behind VaultIndex keeps *)
(* its documents under doc.id = file.path.  Time advances in steps of      *)
(* TickMs, and a timer that is due fires before anything else happens.     *)
(***************************************************************************)
\* VaultEventHandler.UPDATE_DELAY_MS
UPDATE_DELAY_MS == 500

TickMs == 250

\* the VaultIndex.upsert calls that may await a read at once
MaxReads == 2

VaultPaths == {"a.md", "b.md", "c.png"}

\* TFile.extension
FileExtension(path) == IF path = "c.png" THEN "png" ELSE "md"

\* TFile.basename
FileBasename(path) ==
    CASE path = "a.md" -> <<"a">> [] path = "b.md" -> <<"b">> [] OTHER -> <<"c">>

\* what app.vault.read(file) resolves to
FileContent(path) == IF path = "a.md" THEN <<"X", " ", "a">> ELSE <<"X">>

\* settings.search.excludeFolders
excludeFolders == {}

shouldSkipFile(path) == FileExtension(path) # "md" \/ path \in excludeFolders

\* extractDoc(file, {includeBody: true}) for a file without metadata cache:
\* a read that fails (the file is gone) is caught and leaves the body empty
extractDoc(path, readable) ==
    Doc(path, FileBasename(path), <<>>, <<>>, <<>>, <<>>,
        IF readable THEN [i \in 1..Len(FileContent(path)) |-> ToLowerCase(FileContent(path)[i])]
        ELSE <<>>,
        0)

\* a faulty pendingUpdates: an array that keeps every event
PendingPush(pending, path) == Append(pending, path)

\* Set.prototype.add on pendingUpdates
PendingAdd(pending, path) == IF Includes(pending, path) THEN pending ELSE Append(pending, path)

\* Set.prototype.delete on pendingUpdates
PendingDelete(pending, path) == SelectSeq(pending, LAMBDA x : x # path)

\* history: a VaultIndex.upsert call is noted in the current window of
\* modify events
NoteUpsert(V, path) ==
    [V EXCEPT !.window.started = IF V.window.paths # {} /\ V.window.pure
                                 THEN Append(@, path) ELSE @,
              !.after = IF V.unloaded THEN @ \cup {path} ELSE @]

\* VaultIndex.upsert(file) up to its first await: throw for a skipped file,
\* else start extracting
StartUpsert(V, path) ==
    IF shouldSkipFile(path) THEN NoteUpsert(V, path)
    ELSE [NoteUpsert(V, path) EXCEPT !.reads = Append(@, path)]

RECURSIVE StartUpserts(_, _)
\* processPendingUpdates' paths.map(...): each path whose file exists
StartUpserts(V, paths) ==
    IF paths = <<>> THEN V
    ELSE StartUpserts(IF Head(paths) \in V.files THEN StartUpsert(V, Head(paths)) ELSE V,
                      Tail(paths))

processPendingUpdates(V) ==
    StartUpserts([V EXCEPT !.pendingUpdates = <<>>], V.pendingUpdates)

\* onFileModify: add to pendingUpdates, restart the timer
onFileModify(V, path) ==
    [V EXCEPT !.pendingUpdates = PendingAdd(@, path),
              !.updateTimer = [armed |-> TRUE, ms |-> UPDATE_DELAY_MS]]

\* history: a modify event while no timer runs opens a window of modify
\* events; later ones join it while no other event has come in between
ModifyInWindow(V, path) ==
    IF ~V.updateTimer.armed
    THEN [paths |-> {path}, pure |-> TRUE, started |-> <<>>, fired |-> FALSE,
          repeated |-> FALSE]
    ELSE IF V.window.pure
    THEN [V.window EXCEPT !.paths = @ \cup {path},
                          !.repeated = @ \/ path \in V.window.paths]
    ELSE V.window

\* history: an event other than modify closes the window
OtherEvent(V, touched) ==
    [V EXCEPT !.window = [paths |-> {}, pure |-> FALSE, started |-> <<>>,
                          fired |-> FALSE, repeated |-> FALSE],
              !.renamed = <<>>, !.deleted = @ \ touched]

\* the timer set by onFileModify has run out
TimerDue == vault.updateTimer.armed /\ vault.updateTimer.ms = 0

\* the outcome of a vault event: q holds the path of the event's file
Event(op, path) == [Done(op, FALSE) EXCEPT !.q = <<path>>]

\* a faulty 'create' event: the file is throttled like a modified one
FileCreateThrottled(path) ==
    /\ ~TimerDue
    /\ path \notin vault.files
    /\ Len(vault.reads) < MaxReads
    /\ vault' = onFileModify(OtherEvent([vault EXCEPT !.files = @ \cup {path}], {path}), path)
    /\ outcome' = Event("create", path)
    /\ UNCHANGED <<index, docs, df, totalDocs, options, calls, burst, stream, signal, minHeap, indexer, parser>>

\* the vault's 'create' event: onFileCreate calls VaultIndex.upsert
FileCreate(path) ==
    /\ ~TimerDue
    /\ path \notin vault.files
    /\ Len(vault.reads) < MaxReads
    /\ vault' = StartUpsert(OtherEvent([vault EXCEPT !.files = @ \cup {path}], {path}), path)
    /\ outcome' = Event("create", path)
    /\ UNCHANGED <<index, docs, df, totalDocs, options, calls, burst, stream, signal, minHeap, indexer, parser>>

\* the vault's 'modify' event
FileModify(path) ==
    /\ ~TimerDue
    /\ path \in vault.files
    /\ vault' = [onFileModify(vault, path) EXCEPT
                    !.window = ModifyInWindow(vault, path), !.renamed = <<>>,
                    !.deleted = @ \ {path}]
    /\ outcome' = Event("modify", path)
    /\ UNCHANGED <<index, docs, df, totalDocs, options, calls, burst, stream, signal, minHeap, indexer, parser>>

\* the metadata cache's 'changed' event: onMetadataChanged calls onFileModify
MetadataChanged(path) ==
    /\ ~TimerDue
    /\ path \in vault.files
    /\ vault' = [onFileModify(vault, path) EXCEPT
                    !.window = ModifyInWindow(vault, path), !.renamed = <<>>,
                    !.deleted = @ \ {path}]
    /\ outcome' = Event("changed", path)
    /\ UNCHANGED <<index, docs, df, totalDocs, options, calls, burst, stream, signal, minHeap, indexer, parser>>

\* the vault's 'delete' event: onFileDelete drops the path from pendingUpdates
\* and calls VaultIndex.remove (provider.remove, then fileCache.delete)
FileDelete(path) ==
    /\ ~TimerDue
    /\ path \in vault.files
    /\ vault' = [OtherEvent(vault, {}) EXCEPT
                    !.files = @ \ {path},
                    !.pendingUpdates = PendingDelete(@, path),
                    !.fileCache = @ \ {path},
                    !.deleted = @ \cup {path}]
    /\ SetProvider(remove(P, path))
    /\ outcome' = Event("delete", path)
    /\ UNCHANGED <<calls, burst, stream, signal, minHeap, indexer, parser>>

\* the vault's 'rename' event: onFileRename moves the pending entry and calls
\* VaultIndex.rename (fileCache.delete(oldPath), then upsert(file))
FileRename(oldPath, path) ==
    /\ ~TimerDue
    /\ oldPath \in vault.files
    /\ path \notin vault.files
    /\ Len(vault.reads) < MaxReads
    /\ vault' = [StartUpsert(
                    [OtherEvent(vault, {oldPath, path}) EXCEPT
                        !.files = (@ \ {oldPath}) \cup {path},
                        !.pendingUpdates = PendingAdd(PendingDelete(@, oldPath), path),
                        !.fileCache = @ \ {oldPath}],
                    path)
                 EXCEPT !.renamed = <<[old |-> oldPath, new |-> path,
                                       inFlight |-> Includes(vault.reads, oldPath)]>>]
    /\ outcome' = Event("rename", path)
    /\ UNCHANGED <<index, docs, df, totalDocs, options, calls, burst, stream, signal, minHeap, indexer, parser>>

\* TickMs pass
Tick ==
    /\ vault.updateTimer.armed
    /\ vault.updateTimer.ms > 0
    /\ vault' = [vault EXCEPT !.updateTimer.ms = Max2(0, @ - TickMs)]
    /\ outcome' = Done("tick", FALSE)
    /\ UNCHANGED <<index, docs, df, totalDocs, options, calls, burst, stream, signal, minHeap, indexer, parser>>

\* the timer's callback: processPendingUpdates, up to its await
TimerFire ==
    /\ TimerDue
    /\ Len(processPendingUpdates(vault).reads) <= MaxReads
    /\ vault' = processPendingUpdates([vault EXCEPT !.updateTimer.armed = FALSE,
                                                    !.window.fired = TRUE])
    /\ outcome' = Done("timer", FALSE)
    /\ UNCHANGED <<index, docs, df, totalDocs, options, calls, burst, stream, signal, minHeap, indexer, parser>>

\* the rest of a VaultIndex.upsert call once its reads have settled:
\* extractDoc's result goes to provider.upsert, then updateFileCache
ReadDone(i) ==
    /\ i \in 1..Len(vault.reads)
    /\ SetProvider(upsert(P, extractDoc(vault.reads[i], vault.reads[i] \in vault.files)))
    /\ vault' = [vault EXCEPT
                    !.reads = SubSeq(@, 1, i - 1) \o SubSeq(@, i + 1, Len(@)),
                    !.fileCache = IF upsertThrows(P, extractDoc(vault.reads[i],
                                                                vault.reads[i] \in vault.files))
                                  THEN @ ELSE @ \cup {vault.reads[i]}]
    /\ outcome' = Done("upsert", FALSE)
    /\ UNCHANGED <<calls, burst, stream, signal, minHeap, indexer, parser>>

\* a faulty onunload: the timer is left running and the pending set is kept
onunloadKeepsTimer(V) ==
    [V EXCEPT !.unloaded = TRUE, !.atUnload = {V.pendingUpdates[i] : i \in DOMAIN V.pendingUpdates}]

\* onunload: clearTimeout(updateTimer), pendingUpdates.clear()
onunload(V) ==
    [V EXCEPT !.updateTimer.armed = FALSE,
              !.pendingUpdates = <<>>,
              !.unloaded = TRUE,
              !.atUnload = {V.pendingUpdates[i] : i \in DOMAIN V.pendingUpdates}]

\* the handler is unloaded; the listeners given to registerEvent are detached
\* with it, so that no vault event reaches the handler afterwards
Unload ==
    /\ ~vault.unloaded
    /\ ~TimerDue
    /\ vault' = onunload(vault)
    /\ outcome' = Done("onunload", FALSE)
    /\ UNCHANGED <<index, docs, df, totalDocs, options, calls, burst, stream, signal, minHeap, indexer, parser>>

NextVault ==
    \/ \E path \in VaultPaths : FileCreate(path)
    \/ \E path \in VaultPaths : FileModify(path)
    \/ \E path \in VaultPaths : MetadataChanged(path)
    \/ \E path \in VaultPaths : FileDelete(path)
    \/ \E oldPath, path \in VaultPaths : FileRename(oldPath, path)
    \/ Tick
    \/ TimerFire
    \/ \E i \in 1..MaxReads : ReadDone(i)

SpecVault == InitWith(DefaultOptions) /\ [][NextVault]_vars

\* vault events up to the handler's unload, then the timer and the upserts
\* still awaiting their reads
NextUnload ==
    \/ \E path \in VaultPaths : ~vault.unloaded /\ FileCreate(path)
    \/ \E path \in VaultPaths : ~vault.unloaded /\ FileModify(path)
    \/ \E path \in VaultPaths : ~vault.unloaded /\ FileDelete(path)
    \/ Unload
    \/ Tick
    \/ TimerFire
    \/ \E i \in 1..MaxReads : ReadDone(i)

SpecUnload == InitWith(DefaultOptions) /\ [][NextUnload]_vars

(***************************************************************************)
(* Queries with exclude terms and with terms that are not indexed, run     *)
(* between upserts and removes.                                            *)
(***************************************************************************)
ExcludeDocs == {DocA1, DocB1, DocB2, DocC1}

\* -b
QExcludeOnly == Query(<<>>, <<>>, << <<"b">> >>, <<>>, <<>>)

\* x -B
QTermExclude == Query(<< <<"x">> >>, <<>>, << <<"B">> >>, <<>>, <<>>)

\* x 1: no document has the token 1
QMissingTerm == Query(<< <<"x">>, <<"1">> >>, <<>>, <<>>, <<>>, <<>>)

ExcludeQueries == {QExcludeOnly, QTermExclude, QMissingTerm, QTermsAB}

NextExclude ==
    \/ \E d \in ExcludeDocs : Upsert(d)
    \/ \E id \in HotIds : Remove(id)
    \/ \E q \in ExcludeQueries, limit \in Limits : RunQuery(q, limit)
    \/ \E q \in ExcludeQueries, limit \in Limits : RunQueryStream(q, limit)

SpecExclude == InitWith(DefaultOptions) /\ [][NextExclude]_vars

(***************************************************************************)
(* Queries with or-groups, phrases and a regex that does not compile, run  *)
(* between upserts and removes.                                            *)
(***************************************************************************)
\* (a OR b) (x)
QOrGroups == Query(<<>>, <<>>, <<>>, << << <<"a">>, <<"b">> >>, << <<"x">> >> >>, <<>>)

\* (x) (1 OR 2): no document has the token 1 or the token 2
QOrMissingGroup == Query(<<>>, <<>>, <<>>, << << <<"x">> >>, << <<"1">>, <<"2">> >> >>, <<>>)

\* "ab"
QPhrase == Query(<<>>, << <<"a", "b">> >>, <<>>, <<>>, <<>>)

\* x "Ab"
QTermPhrase == Query(<< <<"x">> >>, << <<"A", "b">> >>, <<>>, <<>>, <<>>)

\* x /[a/
QBadRegex == Query(<< <<"x">> >>, <<>>, <<>>, <<>>, <<[source |-> <<"[", "a">>, flags |-> <<>>]>>)

\* /[a/
QBadRegexOnly == Query(<<>>, <<>>, <<>>, <<>>, <<[source |-> <<"[", "a">>, flags |-> <<>>]>>)

ClauseQueries == {QOrGroups, QOrMissingGroup, QPhrase, QTermPhrase, QBadRegex, QBadRegexOnly}

NextClauses ==
    \/ \E d \in ExcludeDocs : Upsert(d)
    \/ \E id \in HotIds : Remove(id)
    \/ \E q \in ClauseQueries, limit \in Limits : RunQuery(q, limit)
    \/ \E q \in ClauseQueries, limit \in Limits : RunQueryStream(q, limit)

SpecClauses == InitWith(DefaultOptions) /\ [][NextClauses]_vars

(***************************************************************************)
(* A MinHeap on its own: constructed with a size limit, then pushed to.    *)
(***************************************************************************)
\* the pushes made to one heap
MaxPushes == 5

\* the greatest size limit a heap is constructed with
MaxHeapSize == 3

\* the greatest score pushed
MaxScore == 3

\* new MinHeap(maxSize, compare)
HeapNew(maxSize) ==
    /\ minHeap' = [NewHeap EXCEPT !.maxSize = maxSize]
    /\ outcome' = Done("new MinHeap", FALSE)
    /\ UNCHANGED <<index, docs, df, totalDocs, options, calls, burst, stream, signal, vault,
                   indexer, parser>>

\* push(item); last keeps the item, the value returned and the items before
HeapPush(score) ==
    /\ Len(minHeap.pushed) < MaxPushes
    /\ minHeap' =
          [minHeap EXCEPT
              !.items = push(@, minHeap.maxSize,
                             [id |-> Len(minHeap.pushed) + 1, score |-> score]),
              !.pushed = Append(@, [id |-> Len(minHeap.pushed) + 1, score |-> score]),
              !.last = <<[item |-> [id |-> Len(minHeap.pushed) + 1, score |-> score],
                          accepted |-> pushAccepts(minHeap.items, minHeap.maxSize,
                                          [id |-> Len(minHeap.pushed) + 1, score |-> score]),
                          before |-> minHeap.items]>>]
    /\ outcome' = Done("push", FALSE)
    /\ UNCHANGED <<index, docs, df, totalDocs, options, calls, burst, stream, signal, vault,
                   indexer, parser>>

NextHeap ==
    \/ \E maxSize \in 0..MaxHeapSize : HeapNew(maxSize)
    \/ \E score \in 1..MaxScore : HeapPush(score)

SpecHeap == InitWith(DefaultOptions) /\ [][NextHeap]_vars

(***************************************************************************)
(* VaultIndex: indexAll in two phases, the body queue and its processor,   *)
(* and upsertIfChanged with the file cache.  I is the indexer's state.     *)
(* A task is in `running` from its start to the end of its awaits (file    *)
(* reads, provider.upsert); the rest of it runs when it is taken out.      *)
(***************************************************************************)
\* Platform.isMobile ? 2 : 4, on mobile
MAX_CONCURRENT_TASKS == 2

\* Platform.isMobile ? 5 : 10, on mobile
QUEUE_BATCH_SIZE == 5

\* the indexAll calls made
MaxIndexAll == 4

\* the greatest mtime a file gets
MaxMtime == 2

\* file.stat
FileStat(I, path) ==
    [mtime |-> IF path \in DOMAIN I.touched THEN I.touched[path] ELSE 1,
     size |-> Len(FileContent(path))]

\* a faulty hasFileChanged: only the size is compared
hasFileChangedBySize(I, path) ==
    \/ path \notin DOMAIN I.fileCache
    \/ I.fileCache[path].size # FileStat(I, path).size

hasFileChanged(I, path) ==
    \/ path \notin DOMAIN I.fileCache
    \/ I.fileCache[path].mtime # FileStat(I, path).mtime
    \/ I.fileCache[path].size # FileStat(I, path).size

updateFileCache(I, path) == [I EXCEPT !.fileCache = MapSet(@, path, FileStat(I, path))]

\* a sequence without its i-th element
Without(s, i) == SubSeq(s, 1, i - 1) \o SubSeq(s, i + 1, Len(s))

\* processBatch: start the next MAX_CONCURRENT_TASKS tasks
StartChunk(b) ==
    [b EXCEPT !.running = SubSeq(b.todo, 1, Min2(MAX_CONCURRENT_TASKS, Len(b.todo))),
              !.todo = SubSeq(b.todo, Min2(MAX_CONCURRENT_TASKS, Len(b.todo)) + 1, Len(b.todo))]

\* a faulty processQueue: isProcessingQueue is not reset when the queue is empty
processQueueKeepsFlag(I) ==
    IF I.bodyQueue = <<>>
    THEN [I EXCEPT !.processor = [phase |-> "none", todo |-> <<>>, running |-> <<>>]]
    ELSE [I EXCEPT
             !.split = @ \/ Len(I.bodyQueue) > QUEUE_BATCH_SIZE,
             !.bodyQueue = SubSeq(@, Min2(QUEUE_BATCH_SIZE, Len(@)) + 1, Len(@)),
             !.processor = StartChunk([phase |-> "batch",
                               todo |-> SubSeq(I.bodyQueue, 1,
                                               Min2(QUEUE_BATCH_SIZE, Len(I.bodyQueue))),
                               running |-> <<>>])]

\* processQueue from the head of its while loop to its next await: splice a
\* batch off the queue and start its first tasks, or leave the loop
processQueue(I) ==
    IF I.bodyQueue = <<>>
    THEN [I EXCEPT !.isProcessingQueue = FALSE,
                   !.processor = [phase |-> "none", todo |-> <<>>, running |-> <<>>]]
    ELSE [I EXCEPT
             !.split = @ \/ Len(I.bodyQueue) > QUEUE_BATCH_SIZE,
             !.bodyQueue = SubSeq(@, Min2(QUEUE_BATCH_SIZE, Len(@)) + 1, Len(@)),
             !.processor = StartChunk([phase |-> "batch",
                               todo |-> SubSeq(I.bodyQueue, 1,
                                               Min2(QUEUE_BATCH_SIZE, Len(I.bodyQueue))),
                               running |-> <<>>])]

startQueueProcessor(I) ==
    IF I.isProcessingQueue THEN I
    ELSE processQueue([I EXCEPT !.isProcessingQueue = TRUE])

\* queueBodyExtraction(file, 1): every task has priority 1, the sort keeps
\* the order
queueBodyExtraction(I, path) ==
    [I EXCEPT !.bodyQueue = Append(@, path), !.queued = @ \cup {path},
              !.late = @ \/ I.isProcessingQueue]

RECURSIVE Phase1Advance(_)
\* indexAll after a metadata task has ended: wait for the rest of the chunk,
\* start the next chunk (a task for a skipped file ends at once), or start
\* the queue processor and return
Phase1Advance(I) ==
    IF I.phase1.running # <<>> THEN I
    ELSE IF I.phase1.todo = <<>>
    THEN startQueueProcessor([I EXCEPT !.phase1.phase = "none"])
    ELSE Phase1Advance(
             [I EXCEPT !.phase1 =
                 [StartChunk(I.phase1) EXCEPT
                     !.running = SelectSeq(@, LAMBDA path : ~shouldSkipFile(path))]])

\* processQueue after a body task has ended: wait for the rest of the chunk,
\* start the next chunk, or go to the delay
BatchAdvance(I) ==
    IF I.processor.running # <<>> THEN I
    ELSE IF I.processor.todo = <<>> THEN [I EXCEPT !.processor.phase = "delay"]
    ELSE [I EXCEPT !.processor = StartChunk(I.processor)]

\* the file lists indexAll is called with
IndexFiles == {<<"a.md", "b.md", "c.png">>, <<"b.md">>}

\* indexAll(files) up to its first await; its callers await it, so that no
\* two calls overlap
IndexAllCall(files) ==
    /\ indexer.phase1.phase = "none"
    /\ indexer.made < MaxIndexAll
    /\ indexer' = Phase1Advance([indexer EXCEPT
                      !.phase1 = [phase |-> "meta", todo |-> files, running |-> <<>>],
                      !.made = @ + 1,
                      !.last = <<[op |-> "indexAll"]>>])
    /\ outcome' = Done("VaultIndex.indexAll", FALSE)
    /\ UNCHANGED <<index, docs, df, totalDocs, options, calls, burst, stream, signal, vault,
                   minHeap, parser>>

\* the end of a metadata task: the document without body has been extracted
\* and given to provider.upsert; the file is queued unless that threw
MetaDone(i) ==
    /\ i \in 1..Len(indexer.phase1.running)
    /\ SetProvider(upsert(P, extractDoc(indexer.phase1.running[i], FALSE)))
    /\ indexer' =
          Phase1Advance(
              [(IF upsertThrows(P, extractDoc(indexer.phase1.running[i], FALSE))
                THEN indexer
                ELSE queueBodyExtraction(indexer, indexer.phase1.running[i]))
               EXCEPT !.phase1.running = Without(@, i),
                      !.last = <<[op |-> "meta"]>>])
    /\ outcome' = Done("VaultIndex.indexAll meta", FALSE)
    /\ UNCHANGED <<calls, burst, stream, signal, vault, minHeap, parser>>

\* the end of a body task: the full document has been extracted and given to
\* provider.upsert, then updateFileCache unless that threw
BodyDone(i) ==
    /\ i \in 1..Len(indexer.processor.running)
    /\ SetProvider(upsert(P, extractDoc(indexer.processor.running[i],
                                   indexer.processor.running[i] \notin indexer.removed)))
    /\ indexer' =
          BatchAdvance(
              [(IF upsertThrows(P, extractDoc(indexer.processor.running[i],
                                   indexer.processor.running[i] \notin indexer.removed))
                THEN indexer
                ELSE updateFileCache(indexer, indexer.processor.running[i]))
               EXCEPT !.processor.running = Without(@, i),
                      !.last = <<[op |-> "body"]>>])
    /\ outcome' = Done("VaultIndex.processQueue body", FALSE)
    /\ UNCHANGED <<calls, burst, stream, signal, vault, minHeap, parser>>

\* the end of `await this.delay(QUEUE_DELAY_MS)`
DelayDone ==
    /\ indexer.processor.phase = "delay"
    /\ indexer' = processQueue([indexer EXCEPT !.last = <<[op |-> "delay"]>>])
    /\ outcome' = Done("VaultIndex.processQueue delay", FALSE)
    /\ UNCHANGED <<index, docs, df, totalDocs, options, calls, burst, stream, signal, vault,
                   minHeap, parser>>

\* the file is modified: a new mtime
Touch(path) ==
    /\ FileStat(indexer, path).mtime < MaxMtime
    /\ indexer' = [indexer EXCEPT
                      !.touched = MapSet(@, path, FileStat(indexer, path).mtime + 1),
                      !.last = <<[op |-> "touch"]>>]
    /\ outcome' = Done("modify", FALSE)
    /\ UNCHANGED <<index, docs, df, totalDocs, options, calls, burst, stream, signal, vault,
                   minHeap, parser>>

\* upsertIfChanged(file) up to its first await: it throws for a skipped file,
\* returns null for an unchanged one, else calls upsert, which starts
\* extracting; last keeps what the indexer was before the call
UpsertIfChanged(path) ==
    /\ Len(indexer.upserts) < MaxReads
    /\ indexer' =
          [indexer EXCEPT
              !.upserts = IF ~shouldSkipFile(path) /\ hasFileChanged(indexer, path)
                          THEN Append(@, path) ELSE @,
              !.last = <<[op |-> "upsertIfChanged", path |-> path,
                          returned |-> IF shouldSkipFile(path) THEN "throws"
                                       ELSE IF hasFileChanged(indexer, path) THEN "pending"
                                       ELSE "null",
                          stat |-> FileStat(indexer, path),
                          before |-> [indexer EXCEPT !.last = <<>>],
                          provider |-> P]>>]
    /\ outcome' = Done("VaultIndex.upsertIfChanged", shouldSkipFile(path))
    /\ UNCHANGED <<index, docs, df, totalDocs, options, calls, burst, stream, signal, vault,
                   minHeap, parser>>

\* the rest of upsert once extractDoc and provider.upsert have settled:
\* updateFileCache, unless provider.upsert threw
UpsertDone(i) ==
    /\ i \in 1..Len(indexer.upserts)
    /\ SetProvider(upsert(P, extractDoc(indexer.upserts[i], TRUE)))
    /\ indexer' =
          [(IF upsertThrows(P, extractDoc(indexer.upserts[i], TRUE))
            THEN indexer
            ELSE updateFileCache(indexer, indexer.upserts[i]))
           EXCEPT !.upserts = Without(@, i),
                  !.last = <<[op |-> "upsert", path |-> indexer.upserts[i],
                              stat |-> FileStat(indexer, indexer.upserts[i])]>>]
    /\ outcome' = Done("VaultIndex.upsert", upsertThrows(P, extractDoc(indexer.upserts[i], TRUE)))
    /\ UNCHANGED <<calls, burst, stream, signal, vault, minHeap, parser>>

NextQueue ==
    \/ \E files \in IndexFiles : IndexAllCall(files)
    \/ \E i \in 1..MAX_CONCURRENT_TASKS : MetaDone(i)
    \/ \E i \in 1..MAX_CONCURRENT_TASKS : BodyDone(i)
    \/ DelayDone

SpecQueue == InitWith(DefaultOptions) /\ [][NextQueue]_vars

\* the file is deleted and VaultIndex.remove(file) runs to its end:
\* provider.remove, then fileCache.delete; the body queue is left as it is
IndexRemove(path) ==
    /\ path \in indexer.queued
    /\ path \notin indexer.removed
    /\ path \notin Range(indexer.phase1.running) \cup Range(indexer.phase1.todo)
    /\ SetProvider(remove(P, path))
    /\ indexer' = [indexer EXCEPT !.fileCache = MapDelete(@, {path}),
                                  !.removed = @ \cup {path},
                                  !.last = <<[op |-> "remove", path |-> path]>>]
    /\ outcome' = Done("VaultIndex.remove", FALSE)
    /\ UNCHANGED <<calls, burst, stream, signal, vault, minHeap, parser>>

\* up to two indexAll calls over the files that exist, with files removed
\* while their bodies are queued or extracted
NextRemove ==
    \/ \E files \in IndexFiles :
          /\ indexer.made < 2
          /\ Range(files) \cap indexer.removed = {}
          /\ IndexAllCall(files)
    \/ \E i \in 1..MAX_CONCURRENT_TASKS : MetaDone(i)
    \/ \E i \in 1..MAX_CONCURRENT_TASKS : BodyDone(i)
    \/ DelayDone
    \/ \E path \in VaultPaths : IndexRemove(path)

SpecRemove == InitWith(DefaultOptions) /\ [][NextRemove]_vars

\* the file caches a previous process may have saved with getCache: entries
\* for some of the markdown files, with the stat the file had then
SavedCaches ==
    {[p \in S |-> [mtime |-> m, size |-> Len(FileContent(p))]] :
        S \in (SUBSET {"a.md", "b.md"}) \ {{}}, m \in 0..1}

\* loadCache(data) on a new VaultIndex, whose provider is empty: data.fileCache
\* replaces the file cache
LoadCache(data) ==
    /\ indexer = NewIndexer
    /\ indexer' = [indexer EXCEPT !.fileCache = data, !.last = <<[op |-> "loadCache"]>>]
    /\ outcome' = Done("VaultIndex.loadCache", FALSE)
    /\ UNCHANGED <<index, docs, df, totalDocs, options, calls, burst, stream, signal, vault,
                   minHeap, parser>>

\* a process that starts by loading the saved file cache; then files are
\* modified and given to upsertIfChanged
NextLoad ==
    \/ \E data \in SavedCaches : LoadCache(data)
    \/ \E path \in {"a.md", "b.md"} : indexer.last # <<>> /\ Touch(path)
    \/ \E path \in VaultPaths : indexer.last # <<>> /\ UpsertIfChanged(path)
    \/ \E i \in 1..MaxReads : UpsertDone(i)

SpecLoad == InitWith(DefaultOptions) /\ [][NextLoad]_vars

\* the event loop runs every task whose awaits have settled and every timer
\* that has run out: weak fairness of the task completions and of the delay.
\* A task completion is enabled exactly when a task is running and always
\* changes the indexer, so its weak fairness is written with that condition
\* in place of ENABLED
MetaStep == \E i \in 1..MAX_CONCURRENT_TASKS : MetaDone(i)

BodyStep == \E i \in 1..MAX_CONCURRENT_TASKS : BodyDone(i)

SpecQueueFair ==
    /\ SpecQueue
    /\ ([]<>(indexer.phase1.running = <<>>) \/ []<><<MetaStep>>_vars)
    /\ ([]<>(indexer.processor.running = <<>>) \/ []<><<BodyStep>>_vars)
    /\ WF_vars(DelayDone)

\* upsertIfChanged calls and file modifications around one indexAll
NextCache ==
    \/ indexer.made = 0 /\ IndexAllCall(<<"a.md", "b.md", "c.png">>)
    \/ \E i \in 1..MAX_CONCURRENT_TASKS : MetaDone(i)
    \/ \E i \in 1..MAX_CONCURRENT_TASKS : BodyDone(i)
    \/ DelayDone
    \/ \E path \in {"a.md", "b.md"} : Touch(path)
    \/ \E path \in VaultPaths : UpsertIfChanged(path)
    \/ \E i \in 1..MaxReads : UpsertDone(i)

SpecCache == InitWith(DefaultOptions) /\ [][NextCache]_vars

\* the letter an edit leaves at the end of the file, by the mtime it gives
EditLetters == <<"b", "c", "d">>

\* what app.vault.read(file) resolves to once the file has been modified up
\* to the given mtime: every edit rewrites the last character, the size stays
ContentAt(path, mtime) ==
    IF mtime <= 1 THEN FileContent(path)
    ELSE [FileContent(path) EXCEPT ![Len(FileContent(path))] = EditLetters[mtime - 1]]

\* extractDoc(file, {includeBody: true}) from the content one read returned
extractDocRead(path, mtime) ==
    Doc(path, FileBasename(path), <<>>, <<>>, <<>>, <<>>,
        [i \in 1..Len(ContentAt(path, mtime)) |-> ToLowerCase(ContentAt(path, mtime)[i])],
        mtime)

\* upsert(file) is called by a timer batch, an event or a phase-2 task and
\* starts extractDoc, whose read is issued; startedAt keeps the mtime the file
\* had at the latest call
UpsertCall(path) ==
    /\ Len(indexer.flights) < MaxReads
    /\ ~shouldSkipFile(path)
    /\ indexer' = [indexer EXCEPT
                      !.flights = Append(@, [path |-> path, read |-> 0]),
                      !.startedAt = MapSet(@, path, FileStat(indexer, path).mtime),
                      !.last = <<[op |-> "upsertCall", path |-> path]>>]
    /\ outcome' = Done("VaultIndex.upsert call", FALSE)
    /\ UNCHANGED <<index, docs, df, totalDocs, options, calls, burst, stream, signal, vault,
                   minHeap, parser>>

\* the read of an upsert in flight is served: it takes the content the file
\* has now (read keeps its mtime)
FlightRead(i) ==
    /\ i \in 1..Len(indexer.flights)
    /\ indexer.flights[i].read = 0
    /\ indexer' = [indexer EXCEPT
                      !.flights[i].read = FileStat(indexer, indexer.flights[i].path).mtime,
                      !.last = <<[op |-> "read", path |-> indexer.flights[i].path]>>]
    /\ outcome' = Done("vault.read", FALSE)
    /\ UNCHANGED <<index, docs, df, totalDocs, options, calls, burst, stream, signal, vault,
                   minHeap, parser>>

\* the read of an upsert in flight completes and the rest of upsert runs:
\* provider.upsert with the document of the content read, then
\* updateFileCache with the stat the file has now, unless provider.upsert threw
FlightDone(i) ==
    /\ i \in 1..Len(indexer.flights)
    /\ indexer.flights[i].read > 0
    /\ SetProvider(upsert(P, extractDocRead(indexer.flights[i].path, indexer.flights[i].read)))
    /\ indexer' =
          [(IF upsertThrows(P, extractDocRead(indexer.flights[i].path, indexer.flights[i].read))
            THEN indexer
            ELSE updateFileCache(indexer, indexer.flights[i].path))
           EXCEPT !.flights = Without(@, i),
                  !.last = <<[op |-> "upsert", path |-> indexer.flights[i].path,
                              stat |-> FileStat(indexer, indexer.flights[i].path)]>>]
    /\ outcome' = Done("VaultIndex.upsert",
                       upsertThrows(P, extractDocRead(indexer.flights[i].path,
                                                      indexer.flights[i].read)))
    /\ UNCHANGED <<calls, burst, stream, signal, vault, minHeap, parser>>

\* upserts of the same files in flight at once while the files are modified
NextRace ==
    \/ \E path \in {"a.md", "b.md"} : Touch(path)
    \/ \E path \in {"a.md", "b.md"} : UpsertCall(path)
    \/ \E i \in 1..MaxReads : FlightRead(i)
    \/ \E i \in 1..MaxReads : FlightDone(i)

SpecRace == InitWith(DefaultOptions) /\ [][NextRace]_vars

(***************************************************************************)
(* parseQueryWithErrors called with texts made of tokens joined by blanks. *)
(***************************************************************************)
MaxTokens == 4

MaxRegexTokens == 3

\* the lists of at most n elements of S
SeqsUpTo(S, n) == UNION {[1..k -> S] : k \in 0..n}

\* a b OR or -a tag:a #
OrTokens ==
    {<<"a">>, <<"b">>, <<"O", "R">>, <<"o", "r">>, <<"-", "a">>, <<"t", "a", "g", ":", "a">>,
     <<"#">>}

\* a /a/ /[/ /b/i "a b" OR >
RegexTokens ==
    {<<"a">>, <<"/", "a", "/">>, <<"/", "[", "/">>, <<"/", "b", "/", "i">>,
     <<"\"", "a", " ", "b", "\"">>, <<"O", "R">>, <<">">>}

\* one call of the parser, which keeps no state between calls
ParseCall(tokens) ==
    /\ ~parser.called
    /\ parser' = [called |-> TRUE, tokens |-> tokens, input |-> JoinSp(tokens),
                  result |-> <<parseQueryWithErrors(JoinSp(tokens))>>]
    /\ outcome' = Done("parseQueryWithErrors", FALSE)
    /\ UNCHANGED <<index, docs, df, totalDocs, options, calls, burst, stream, signal, vault,
                   minHeap, indexer>>

NextParseOr == \E tokens \in SeqsUpTo(OrTokens, MaxTokens) : ParseCall(tokens)

SpecParseOr == InitWith(DefaultOptions) /\ [][NextParseOr]_vars

NextParseRegex == \E tokens \in SeqsUpTo(RegexTokens, MaxRegexTokens) : ParseCall(tokens)

SpecParseRegex == InitWith(DefaultOptions) /\ [][NextParseRegex]_vars

(***************************************************************************)
(* Claims                                                                  *)
(***************************************************************************)
\* C1: after every operation of a sequence of upsert, remove and clear calls run
\* one after another, totalDocs is the number of entries of docs, every term of
\* the postings map has a non-empty posting list, and df has exactly the terms
\* of the postings map, each with a positive count.
C1_CountsAndTermsConsistent ==
    /\ totalDocs = Len(docs)
    /\ Cardinality(DocIds(docs)) = Len(docs)
    /\ \A t \in DOMAIN index : Len(index[t]) > 0
    /\ DOMAIN df = DOMAIN index
    /\ \A t \in DOMAIN df : df[t] > 0

\* a remove has just taken a document out of an index that still holds another
C1_Witness ==
    /\ outcome.op = "remove"
    /\ totalDocs = 1
    /\ DOMAIN index # {}

\* C2: every doc id of any posting entry has a metadata record in docs, and every
\* document of docs has, for each searchable field, a posting entry
\* (term, id, field) for every distinct token of that field.
C2_PostingsMatchDocs ==
    /\ \A t \in DOMAIN index : \A i \in 1..Len(index[t]) : DocsHas(docs, index[t][i].docId)
    /\ \A k \in 1..Len(docs) : \A f \in Range(SearchableFields) :
          \A tok \in Range(FieldTokens(docs[k].doc, f)) :
              /\ tok \in DOMAIN index
              /\ \E i \in 1..Len(index[tok]) :
                    index[tok][i].docId = docs[k].id /\ index[tok][i].field = f

\* an upsert has stored a document one of whose fields has two distinct tokens,
\* next to another document
C2_Witness ==
    /\ outcome.op = "upsert"
    /\ ~outcome.error
    /\ Len(docs) = 2
    /\ \E k \in 1..Len(docs) : \E f \in Range(SearchableFields) :
          Cardinality(Range(FieldTokens(docs[k].doc, f))) >= 2

\* whether some (term, docId, field) has more than one posting entry
DuplicatePostings ==
    \E t \in DOMAIN index : \E i, j \in 1..Len(index[t]) :
        i < j /\ index[t][i].docId = index[t][j].docId /\ index[t][i].field = index[t][j].field

\* the calls of the last burst all name one id, which was indexed before them
SameIndexedId(b) ==
    /\ Len(b.ops) >= 2
    /\ \A i \in 1..Len(b.ops) : b.ops[i].id = b.ops[1].id
    /\ DocsHas(b.base[1].docs, b.ops[1].id)

\* C3: when two or more upsert/remove calls for the same, already indexed id
\* have been in flight at once and have all completed, the provider is in the
\* state some serial execution of those calls leaves; in particular totalDocs
\* is the number of entries of docs and no (term, id, field) has two posting
\* entries.
C3_OverlappingCallsSerializable ==
    (calls = <<>> /\ SameIndexedId(burst)) =>
        /\ P \in SerialResults(burst)
        /\ totalDocs = Len(docs)
        /\ ~DuplicatePostings

\* C4: a query that runs while one upsert(d) of an already indexed id is
\* suspended between its remove and its re-insert returns what it would have
\* returned before that upsert was called or what it returns once the upsert
\* has completed: the document is seen in its old or in its new version.
C4_QuerySeesOldOrNewVersion ==
    (outcome.op = "query" /\ Len(outcome.during) = 1 /\ Len(burst.ops) = 1) =>
        outcome.results \in
            {query(burst.base[1], outcome.q[1], outcome.limit),
             query(upsert(burst.base[1], outcome.during[1].doc), outcome.q[1], outcome.limit)}

\* C5: what a queryStream generator has yielded by its end is what it yields
\* from the index as it was when the generator started, whatever upsert and
\* remove calls its consumer made while it was suspended at a yield.
C5_StreamScoresOneSnapshot ==
    stream.frame.phase = "done" =>
        stream.yielded = queryStream(stream.snapshot[1], stream.frame.q, stream.frame.limit)

ResultIds(results) == {results[i].id : i \in 1..Len(results)}

\* C6: the ids queryStream(Q, {limit: L}) yields when run to completion are
\* the ids query(Q, {limit: L}) returns, more than 100 candidates included.
C6_StreamIdsAreQueryIds ==
    outcome.op = "queryStream" =>
        ResultIds(outcome.results) = ResultIds(query(P, outcome.q[1], outcome.limit))

\* the candidates of q that the scorer accepts, as results
Accepted(Q, q) ==
    LET cands == SelectSeq(gatherCandidates(Q, q),
                           LAMBDA id : /\ DocsHas(Q.docs, id)
                                       /\ ~scoreDocIsNull(DocsGet(Q.docs, id).doc, q)
                                       /\ scoreDocScore(DocsGet(Q.docs, id).doc, q) > 0)
    IN [i \in 1..Len(cands) |->
           [id |-> cands[i], score |-> scoreDocScore(DocsGet(Q.docs, cands[i]).doc, q)]]

\* C7: for a non-empty query without regex and limit L, query returns L of the
\* candidates the scorer accepts (all of them when there are fewer), each once
\* and with its score, and no accepted candidate left out has a strictly
\* higher score than one returned.
C7_QueryReturnsTopL ==
    (outcome.op = "query" /\ ~isEmpty(outcome.q[1]) /\ outcome.q[1].regex = <<>>) =>
        LET accepted == Accepted(P, outcome.q[1])
        IN /\ Range(outcome.results) \subseteq Range(accepted)
           /\ Cardinality(ResultIds(outcome.results)) = Len(outcome.results)
           /\ Len(outcome.results) = Min2(outcome.limit, Len(accepted))
           /\ \A a \in Range(accepted) : \A r \in Range(outcome.results) :
                 a.id \notin ResultIds(outcome.results) => a.score <= r.score

\* C8: the list query returns is in descending score order.
C8_QueryResultsDescending ==
    outcome.op = "query" =>
        \A i \in 1..(Len(outcome.results) - 1) :
            outcome.results[i].score >= outcome.results[i + 1].score

\* C9: query returns at most L results and queryStream yields at most L
\* results in total, intermediate emissions included.
C9_AtMostLimitResults ==
    outcome.op \in {"query", "queryStream"} => Len(outcome.results) <= outcome.limit

\* C10: for a query carrying a valid regex, every result query returns and
\* every result queryStream yields is a document whose title or body matches
\* the regex.
C10_ResultsMatchRegex ==
    (/\ outcome.op \in {"query", "queryStream"}
     /\ outcome.q[1].regex # <<>>
     /\ ~RegexThrows(outcome.q[1].regex[1])) =>
        \A r \in Range(outcome.results) :
            /\ DocsHas(docs, r.id)
            /\ RegexMatchesDoc(outcome.q[1].regex[1], DocsGet(docs, r.id).doc)

\* C11: once the cancellation token is tripped, a query given the token ends
\* with a cancellation outcome (an error, not a result list), and a
\* queryStream that is resumed yields no further result and ends with that
\* outcome.
C11_TrippedTokenCancelsQuery ==
    signal.aborted =>
        /\ outcome.op = "query" => outcome.error
        /\ outcome.op = "queryStream next" => (stream.frame.out = <<>> /\ outcome.error)

\* C12: once a rename event old -> new has been handled (onFileRename and
\* VaultIndex.rename have run to their end, no upsert of the old path having
\* been in flight), the provider holds no document under the old id, holds the
\* document under the new id when the new file is indexable, and the file
\* cache has no entry for the old id.
C12_RenameMovesDocument ==
    (vault.renamed # <<>> /\ vault.reads = <<>> /\ ~vault.renamed[1].inFlight) =>
        /\ ~DocsHas(docs, vault.renamed[1].old)
        /\ ~shouldSkipFile(vault.renamed[1].new) => DocsHas(docs, vault.renamed[1].new)
        /\ vault.renamed[1].old \notin vault.fileCache

\* C13: a path that got a delete event and no create, modify or rename event
\* since, and for which no upsert is pending in pendingUpdates or in flight any
\* more, has no document in the provider.
C13_DeletedPathStaysRemoved ==
    \A path \in VaultPaths :
        (/\ path \in vault.deleted
         /\ ~Includes(vault.reads, path)
         /\ ~Includes(vault.pendingUpdates, path)) => ~DocsHas(docs, path)

\* the VaultIndex.upsert calls for a path since the window of modify events opened
UpsertsFor(path) == Len(SelectSeq(vault.window.started, LAMBDA x : x = path))

\* C14: modify and metadata-changed events that each arrive before the timer
\* of the previous one has run out cause no upsert for their paths until the
\* timer fires, and when it has fired exactly one upsert for each distinct
\* path among them.
C14_ModifyBurstUpsertsOncePerPath ==
    (vault.window.pure /\ vault.window.paths # {}) =>
        \A path \in vault.window.paths :
            UpsertsFor(path) = IF vault.window.fired THEN 1 ELSE 0

\* the timer has fired after modify events for two paths, one of them repeated
C14_Witness ==
    /\ vault.window.pure
    /\ vault.window.fired
    /\ vault.window.repeated
    /\ Cardinality(vault.window.paths) = 2
    /\ \A path \in vault.window.paths : UpsertsFor(path) = 1

\* whether two provider states have the same postings, docs, df and totalDocs
SameIndexState(A, B) ==
    /\ A.index = B.index
    /\ A.docs = B.docs
    /\ A.df = B.df
    /\ A.totalDocs = B.totalDocs

\* C15: in every state reached by operations run one after another the document
\* count is at most maxDocs, and there an upsert of an id that is not indexed,
\* when totalDocs = maxDocs, throws and leaves postings, docs, df and totalDocs
\* as they were.
C15_DocumentCapHolds ==
    /\ totalDocs <= options.maxDocs
    /\ Len(docs) <= options.maxDocs
    /\ \A d \in HotDocs :
          (~DocsHas(docs, d.id) /\ totalDocs = options.maxDocs) =>
              (upsertThrows(P, d) /\ SameIndexState(upsert(P, d), P))

\* an upsert of a new id has just failed on a full index
C15_Witness ==
    /\ outcome.op = "upsert"
    /\ outcome.error
    /\ totalDocs = options.maxDocs
    /\ \E d \in HotDocs : ~DocsHas(docs, d.id)

\* C16: from every state reached, for every document whose id is not indexed,
\* upsert of the document followed by remove of its id gives back the same
\* postings, docs, df and totalDocs.
C16_UpsertRemoveRoundTrip ==
    \A d \in HotDocs :
        ~DocsHas(docs, d.id) => SameIndexState(remove(upsert(P, d), d.id), P)

\* after a remove, next to a document that stays indexed, there is a document
\* whose id is not indexed, whose upsert succeeds and adds to a posting list
\* that exists already
C16_Witness ==
    /\ outcome.op = "remove"
    /\ docs # <<>>
    /\ \E d \in HotDocs :
          /\ ~DocsHas(docs, d.id)
          /\ ~upsertThrows(P, d)
          /\ \E t \in DOMAIN index : Len(upsert(P, d).index[t]) > Len(index[t])
          /\ DOMAIN upsert(P, d).index # DOMAIN index

\* the posting entries of a document for a term and a field
PostingsOf(Q, id, t, f) ==
    SelectSeq(Q.index[t], LAMBDA e : e.docId = id /\ e.field = f)

\* C17: from every state reached, for every document, upsert twice gives the
\* same postings, docs, df and totalDocs as upsert once; the count does not
\* grow and the document has at most one posting entry per term and field.
C17_UpsertIdempotent ==
    \A d \in HotDocs :
        /\ SameIndexState(upsert(upsert(P, d), d), upsert(P, d))
        /\ \A t \in DOMAIN upsert(upsert(P, d), d).index : \A f \in Range(SearchableFields) :
              Len(PostingsOf(upsert(upsert(P, d), d), d.id, t, f)) <= 1

\* an upsert has just replaced or added a document next to another one, and
\* the state is the one a second upsert of that document has to give back
C17_Witness ==
    /\ outcome.op = "upsert"
    /\ ~outcome.error
    /\ Len(docs) = 2
    /\ \E d \in HotDocs :
          /\ docs[Len(docs)].doc = ProcessedDoc(d, options.maxBodyLength)
          /\ \E t \in DOMAIN index : Len(PostingsOf(P, d.id, t, "body")) = 1

\* C18: a query that has excludes and no terms, phrases, or-groups or regex
\* returns no result.
C18_ExcludesOnlyReturnsNothing ==
    (/\ outcome.op = "query"
     /\ outcome.q[1].excludes # <<>>
     /\ outcome.q[1].terms = <<>>
     /\ outcome.q[1].phrases = <<>>
     /\ outcome.q[1].orGroups = <<>>
     /\ outcome.q[1].regex = <<>>) => outcome.results = <<>>

\* whether a searchable field of the document contains the normalized term
FieldContainsTerm(doc, term) ==
    \E f \in Range(SearchableFields) :
        IsSubstring(normalizeText(term, diacritics),
                    normalizeText(FieldContent(doc, f), diacritics))

\* C19: no document returned by query or yielded by queryStream for a query
\* with excludes contains an exclude term, after normalization, in any of its
\* searchable fields.
C19_NoResultContainsExclude ==
    (outcome.op \in {"query", "queryStream"} /\ outcome.q[1].excludes # <<>>) =>
        \A i \in 1..Len(outcome.results) : \A k \in 1..Len(outcome.q[1].excludes) :
            ~FieldContainsTerm(DocsGet(docs, outcome.results[i].id).doc,
                               outcome.q[1].excludes[k])

\* the ids of the documents that have a posting for the term
TermDocIds(term) ==
    IF normalizeText(term, diacritics) \in DOMAIN index
    THEN {index[normalizeText(term, diacritics)][i].docId :
             i \in 1..Len(index[normalizeText(term, diacritics)])}
    ELSE {}

\* C20: for a query with terms and no or-groups (nor phrases or filters), the
\* candidate set is the set of documents that have a posting for every term;
\* a term without a posting list leaves no candidate.
C20_CandidatesArePureAnd ==
    (/\ outcome.op = "query"
     /\ outcome.q[1].terms # <<>>
     /\ outcome.q[1].orGroups = <<>>
     /\ outcome.q[1].phrases = <<>>) =>
        Range(gatherCandidates(P, outcome.q[1])) =
            {id \in DocIds(docs) :
                \A k \in 1..Len(outcome.q[1].terms) : id \in TermDocIds(outcome.q[1].terms[k])}

\* C21: for a query with or-groups (and no phrases), the candidate set is the
\* set of documents that have, for every group, a posting for some term of
\* the group; a group none of whose terms is indexed leaves no candidate.
C21_CandidatesAreAndOfOrs ==
    (/\ outcome.op = "query"
     /\ outcome.q[1].orGroups # <<>>
     /\ outcome.q[1].phrases = <<>>) =>
        Range(gatherCandidates(P, outcome.q[1])) =
            {id \in DocIds(docs) :
                \A g \in 1..Len(outcome.q[1].orGroups) :
                    \E k \in 1..Len(outcome.q[1].orGroups[g]) :
                        id \in TermDocIds(outcome.q[1].orGroups[g][k])}

\* whether the title or the body of the document contains the normalized phrase
ContainsPhrase(doc, phrase) ==
    \/ IsSubstring(normalizeText(phrase, diacritics), normalizeText(doc.title, diacritics))
    \/ IsSubstring(normalizeText(phrase, diacritics), normalizeText(doc.body, diacritics))

\* C22: every document returned by query or yielded by queryStream for a query
\* with phrases contains each phrase, after normalization, as a literal
\* substring of its title or body.
C22_ResultsContainPhrases ==
    (outcome.op \in {"query", "queryStream"} /\ outcome.q[1].phrases # <<>>) =>
        \A i \in 1..Len(outcome.results) : \A k \in 1..Len(outcome.q[1].phrases) :
            ContainsPhrase(DocsGet(docs, outcome.results[i].id).doc, outcome.q[1].phrases[k])

\* C24: when the regex of a query does not compile, query returns what it
\* returns for the same query without the regex clause.
C24_BadRegexAsIfAbsent ==
    (/\ outcome.op = "query"
     /\ outcome.q[1].regex # <<>>
     /\ RegexThrows(outcome.q[1].regex[1])) =>
        outcome.results = query(P, [outcome.q[1] EXCEPT !.regex = <<>>], outcome.limit)

\* the mtime of the stored document of a result
MtimeOf(result) == DocsGet(docs, result.id).doc.mtime

\* C23: for an empty query with limit L over N indexed documents, query and
\* queryStream return min(L, N) distinct documents, none of them older than a
\* document left out, ordered by mtime descending, with strictly decreasing
\* scores.
C23_EmptyQueryReturnsMostRecent ==
    (outcome.op \in {"query", "queryStream"} /\ isEmpty(outcome.q[1])) =>
        /\ Len(outcome.results) = Min2(outcome.limit, Len(docs))
        /\ Cardinality(ResultIds(outcome.results)) = Len(outcome.results)
        /\ ResultIds(outcome.results) \subseteq DocIds(docs)
        /\ \A i, j \in 1..Len(outcome.results) :
              i < j => /\ MtimeOf(outcome.results[i]) >= MtimeOf(outcome.results[j])
                       /\ outcome.results[i].score > outcome.results[j].score
        /\ \A i \in 1..Len(outcome.results) : \A k \in 1..Len(docs) :
              docs[k].id \notin ResultIds(outcome.results) =>
                  MtimeOf(outcome.results[i]) >= docs[k].doc.mtime

\* an empty query with limit 2 over three documents has left out the oldest,
\* which was indexed first
C23_Witness ==
    /\ outcome.op \in {"query", "queryStream"}
    /\ isEmpty(outcome.q[1])
    /\ Len(docs) = 3
    /\ Len(outcome.results) = 2
    /\ docs[1].id \notin ResultIds(outcome.results)
    /\ MtimeOf(outcome.results[1]) > MtimeOf(outcome.results[2])

\* C25: the results one queryStream invocation has yielded so far, intermediate
\* and final, have distinct ids, whatever upserts and removes ran while the
\* generator was suspended.
C25_NoIdYieldedTwice ==
    /\ Cardinality(ResultIds(stream.yielded)) = Len(stream.yielded)
    /\ outcome.op = "queryStream" =>
          Cardinality(ResultIds(outcome.results)) = Len(outcome.results)

\* a generator has ended after an intermediate yield and a final one
C25_Witness ==
    /\ stream.frame.phase = "done"
    /\ stream.frame.yieldedIds # {}
    /\ Len(stream.yielded) >= 2

\* the scores of the items, greatest first
ScoresDesc(items) == [i \in 1..Len(items) |-> SortDesc(items, <<>>)[i].score]

\* C26: for a MinHeap with size limit K and any sequence of pushes: with K > 0
\* the size is at most K; the first item is a minimum; the heap holds the K
\* greatest items pushed so far (all of them with K = 0); and the last push
\* was accepted and inserted when the heap was not full or K = 0, was accepted
\* and replaced the minimum when the heap was full and the item strictly
\* greater than the minimum, and otherwise was rejected and left the heap as
\* it was.
C26_HeapKeepsTopK ==
    /\ minHeap.maxSize > 0 => Len(minHeap.items) <= minHeap.maxSize
    /\ \A i \in 1..Len(minHeap.items) : minHeap.items[1].score <= minHeap.items[i].score
    /\ ScoresDesc(minHeap.items) =
          IF minHeap.maxSize > 0 THEN Slice(ScoresDesc(minHeap.pushed), minHeap.maxSize)
          ELSE ScoresDesc(minHeap.pushed)
    /\ Range(minHeap.items) \subseteq Range(minHeap.pushed)
    /\ minHeap.last # <<>> =>
          IF minHeap.maxSize = 0 \/ Len(minHeap.last[1].before) < minHeap.maxSize
          THEN /\ minHeap.last[1].accepted
               /\ Len(minHeap.items) = Len(minHeap.last[1].before) + 1
               /\ minHeap.last[1].item \in Range(minHeap.items)
          ELSE IF minHeap.last[1].item.score > minHeap.last[1].before[1].score
          THEN /\ minHeap.last[1].accepted
               /\ Len(minHeap.items) = Len(minHeap.last[1].before)
               /\ Range(minHeap.items) =
                     (Range(minHeap.last[1].before) \ {minHeap.last[1].before[1]})
                         \cup {minHeap.last[1].item}
          ELSE /\ ~minHeap.last[1].accepted
               /\ minHeap.items = minHeap.last[1].before

\* a full heap of size limit 2 has just rejected an item equal to its minimum,
\* after a push that replaced the minimum
C26_Witness ==
    /\ minHeap.maxSize = 2
    /\ Len(minHeap.pushed) >= 4
    /\ minHeap.last # <<>>
    /\ ~minHeap.last[1].accepted
    /\ minHeap.last[1].item.score = minHeap.items[1].score
    /\ \E i \in 1..Len(minHeap.pushed) : minHeap.pushed[i] \notin Range(minHeap.items)
    /\ minHeap.items[1].id > 2

\* C27: df[term] is the number of distinct doc ids in the term's posting list,
\* also when a term occurs in several fields of one document.
C27_DfCountsDistinctDocs ==
    \A t \in DOMAIN df :
        df[t] = Cardinality({index[t][i].docId : i \in 1..Len(index[t])})

QueueDrained ==
    /\ indexer.bodyQueue = <<>>
    /\ ~indexer.isProcessingQueue
    /\ indexer.processor.phase = "none"
    /\ \A path \in indexer.queued :
          /\ DocsHas(docs, path)
          /\ DocsGet(docs, path).doc.body = extractDoc(path, TRUE).body

\* C29: once indexAll has returned, the queue processor eventually has upserted
\* every queued file with its full body, the body queue is empty and
\* isProcessingQueue is false again, also for files queued while the processor
\* was running.
C29_BodyQueueEventuallyDrains ==
    (indexer.made > 0 /\ indexer.phase1.phase = "none") ~> QueueDrained

\* the queue has drained after files were queued while the processor was
\* running and after it held more than one batch
C29_Witness ==
    /\ QueueDrained
    /\ indexer.late
    /\ indexer.split
    /\ indexer.queued = {"a.md", "b.md"}
    /\ indexer.made >= 2

\* C30: upsertIfChanged for a file whose cache entry has the file's mtime and
\* size returns null and starts no upsert, leaving the provider, the file cache
\* and the body queue as they were; when the entry is missing or differs it
\* starts a full upsert, and when that upsert has ended the provider holds the
\* document with its body and the file cache holds the file's mtime and size.
C30_UpsertIfChangedSkipsUnchanged ==
    /\ (/\ indexer.last # <<>>
        /\ indexer.last[1].op = "upsertIfChanged"
        /\ indexer.last[1].returned # "throws") =>
          IF /\ indexer.last[1].path \in DOMAIN indexer.last[1].before.fileCache
             /\ indexer.last[1].before.fileCache[indexer.last[1].path] = indexer.last[1].stat
          THEN /\ indexer.last[1].returned = "null"
               /\ indexer.upserts = indexer.last[1].before.upserts
               /\ indexer.fileCache = indexer.last[1].before.fileCache
               /\ indexer.bodyQueue = indexer.last[1].before.bodyQueue
               /\ SameIndexState(P, indexer.last[1].provider)
          ELSE /\ indexer.last[1].returned = "pending"
               /\ indexer.upserts = Append(indexer.last[1].before.upserts, indexer.last[1].path)
    /\ (indexer.last # <<>> /\ indexer.last[1].op = "upsert" /\ ~outcome.error) =>
          /\ indexer.fileCache[indexer.last[1].path] = indexer.last[1].stat
          /\ DocsHas(docs, indexer.last[1].path)
          /\ DocsGet(docs, indexer.last[1].path).doc.body
                = extractDoc(indexer.last[1].path, TRUE).body

\* upsertIfChanged has returned null for a file that was modified and indexed
\* again before, while the body queue holds a file
C30_Witness ==
    /\ indexer.last # <<>>
    /\ indexer.last[1].op = "upsertIfChanged"
    /\ indexer.last[1].returned = "null"
    /\ indexer.fileCache[indexer.last[1].path].mtime = MaxMtime
    /\ indexer.bodyQueue # <<>>

\* C31: one timer serves all modify events and is re-armed by each; once the
\* handler is unloaded the timer is cancelled and the pending set is empty, and
\* no upsert is started afterwards for a path that was pending at the unload.
C31_UnloadCancelsPending ==
    /\ (outcome.op = "modify") =>
          /\ vault.updateTimer = [armed |-> TRUE, ms |-> UPDATE_DELAY_MS]
          /\ vault.pendingUpdates # <<>>
    /\ vault.unloaded =>
          /\ ~vault.updateTimer.armed
          /\ vault.pendingUpdates = <<>>
          /\ vault.after \cap vault.atUnload = {}

\* the handler was unloaded with two paths pending, half of the delay gone
C31_Witness ==
    /\ vault.unloaded
    /\ Cardinality(vault.atUnload) = 2
    /\ vault.updateTimer.ms = UPDATE_DELAY_MS - TickMs
    /\ vault.reads = <<>>

\* the statement that a create event is throttled like a modify event: after
\* it the path is pending, the timer runs for the whole delay and no upsert
\* of the path has been started
C32_CreateIsThrottled ==
    (outcome.op = "create") =>
        /\ Includes(vault.pendingUpdates, outcome.q[1])
        /\ vault.updateTimer = [armed |-> TRUE, ms |-> UPDATE_DELAY_MS]
        /\ ~Includes(vault.reads, outcome.q[1])

\* C32: a create event starts the file's upsert at once (for a file that is not
\* skipped) and does not add the path to the pending set; a modify or
\* metadata event adds the path to the pending set and restarts the timer
\* with the whole delay; a delete event removes the document and the cache
\* entry at once and a rename event starts the upsert of the new path at once.
C32_CreateDispatchesAtOnce ==
    /\ (outcome.op = "create") =>
          /\ ~Includes(vault.pendingUpdates, outcome.q[1])
          /\ IF shouldSkipFile(outcome.q[1])
             THEN ~Includes(vault.reads, outcome.q[1])
             ELSE vault.reads # <<>> /\ vault.reads[Len(vault.reads)] = outcome.q[1]
    /\ (outcome.op \in {"modify", "changed"}) =>
          /\ Includes(vault.pendingUpdates, outcome.q[1])
          /\ vault.updateTimer = [armed |-> TRUE, ms |-> UPDATE_DELAY_MS]
    /\ (outcome.op = "delete") =>
          /\ ~DocsHas(docs, outcome.q[1])
          /\ outcome.q[1] \notin vault.fileCache
          /\ ~Includes(vault.pendingUpdates, outcome.q[1])
    /\ (outcome.op = "rename" /\ ~shouldSkipFile(outcome.q[1])) =>
          vault.reads # <<>> /\ vault.reads[Len(vault.reads)] = outcome.q[1]

\* a file has been created while the timer of an earlier modify event had
\* run for half of its delay: its upsert is under way, the timer has not been
\* restarted and only the modified path is pending
C32_Witness ==
    /\ outcome.op = "create"
    /\ outcome.q[1] = "b.md"
    /\ vault.reads = <<"b.md">>
    /\ vault.pendingUpdates = <<"a.md">>
    /\ vault.updateTimer = [armed |-> TRUE, ms |-> UPDATE_DELAY_MS - TickMs]

\* the number of times x occurs in the list s
Count(s, x) == Cardinality({k \in 1..Len(s) : s[k] = x})

RECURSIVE Flatten(_)
Flatten(groups) == IF groups = <<>> THEN <<>> ELSE Head(groups) \o Flatten(Tail(groups))

RECURSIVE DropOrs(_, _)
\* tokens without their leading and trailing OR tokens and with each run of
\* OR tokens reduced to one
DropOrs(tokens, afterTerm) ==
    IF tokens = <<>> THEN <<>>
    ELSE IF IsOr(Head(tokens))
    THEN IF afterTerm /\ \E k \in 2..Len(tokens) : ~IsOr(tokens[k])
         THEN <<Head(tokens)>> \o DropOrs(Tail(tokens), FALSE)
         ELSE DropOrs(Tail(tokens), FALSE)
    ELSE <<Head(tokens)>> \o DropOrs(Tail(tokens), TRUE)

\* C33: in files mode every or-group the parser emits has at least 2 terms; the
\* leading, trailing and repeated OR tokens of the input change nothing; and
\* every ordinary term of the input occurs as often in terms and or-groups
\* together as it occurs in the input (so a group of one is a term again).
C33_OrGroupsWellFormed ==
    (parser.called /\ parser.result[1].query.mode = "files") =>
        LET q == parser.result[1].query
            r == parseQueryWithErrors(JoinSp(DropOrs(parser.tokens, FALSE))).query
        IN /\ \A g \in 1..Len(q.orGroups) : Len(q.orGroups[g]) >= 2
           /\ q.terms = r.terms /\ q.orGroups = r.orGroups /\ q.excludes = r.excludes
           /\ q.filters = r.filters
           /\ \A t \in {<<"a">>, <<"b">>} :
                 Count(q.terms, t) + Count(Flatten(q.orGroups), t) = Count(parser.tokens, t)
           /\ \A k \in 1..Len(q.terms) : ~IsOr(q.terms[k])
           /\ \A k \in 1..Len(Flatten(q.orGroups)) : ~IsOr(Flatten(q.orGroups)[k])

\* a OR or b: repeated ORs inside a group of two, and
\* OR a b OR: a leading OR and a would-be group of one
C33_Witness ==
    /\ parser.called
    /\ \/ /\ parser.tokens = << <<"a">>, <<"O", "R">>, <<"o", "r">>, <<"b">> >>
          /\ parser.result[1].query.orGroups = << << <<"a">>, <<"b">> >> >>
          /\ parser.result[1].query.terms = <<>>
       \/ /\ parser.tokens = << <<"O", "R">>, <<"a">>, <<"b">>, <<"O", "R">> >>
          /\ parser.result[1].query.orGroups = <<>>
          /\ parser.result[1].query.terms = << <<"a">>, <<"b">> >>

\* the tokens of the input that have the form /PATTERN/FLAGS, as regex specs
RegexTokensOf(tokens) ==
    LET slashed == SelectSeq(tokens, LAMBDA t : Head(t) = "/")
    IN [k \in 1..Len(slashed) |->
           [source |-> SubSeq(slashed[k], 2, IndexFrom(slashed[k], "/", 2) - 1),
            flags |-> SubSeq(slashed[k], IndexFrom(slashed[k], "/", 2) + 1, Len(slashed[k]))]]

\* C34: in files mode the regex of the parsed query is the first /PATTERN/FLAGS
\* of the input that compiles (none when none compiles); an input with a
\* pattern that does not compile yields a regex error, that pattern is
\* discarded and the ordinary terms of the input are still classified.
C34_FirstValidRegexRetained ==
    (parser.called /\ parser.result[1].query.mode = "files") =>
        LET q == parser.result[1].query
            valid == SelectSeq(RegexTokensOf(parser.tokens), LAMBDA r : ~RegexThrows(r))
            invalid == SelectSeq(RegexTokensOf(parser.tokens), LAMBDA r : RegexThrows(r))
        IN /\ q.regex = IF valid = <<>> THEN <<>> ELSE <<valid[1]>>
           /\ invalid # <<>> =>
                 /\ parser.result[1].errors # <<>>
                 /\ \A k \in 1..Len(parser.result[1].errors) :
                       parser.result[1].errors[k].type = "regex"
           /\ \A k \in 1..Len(q.terms) :
                 ~(Head(q.terms[k]) = "/" /\ Includes(q.terms[k], "["))
           /\ Count(q.terms, <<"a">>) + Count(Flatten(q.orGroups), <<"a">>)
                 = Count(parser.tokens, <<"a">>)

\* query terms to probe the index with
ProbeTerms == {<<"x">>, <<"a">>, <<"b">>, <<"a", "b">>, <<"b", "x">>, <<"a", "x">>}

\* the tokens of a document as it is stored
TokensOf(doc) ==
    UNION {Range(UniqueTerms(FieldTokens(doc, f), <<>>)) : f \in Range(SearchableFields)}

\* the ids of the candidates of the query whose only term is t
CandidateIds(Q, t) == Range(gatherCandidates(Q, Query(<<t>>, <<>>, <<>>, <<>>, <<>>)))

\* upsert(d) on the provider Q has made d a candidate for exactly the tokens
\* of d, whatever version of d Q held
VisibleAfterUpsert(Q, R, d) ==
    \A t \in ProbeTerms :
        /\ d.id \in CandidateIds(R, t) <=> t \in TokensOf(ProcessedDoc(d, Q.options.maxBodyLength))
        /\ (/\ DocsHas(Q.docs, d.id)
            /\ t \in TokensOf(DocsGet(Q.docs, d.id).doc)
            /\ t \notin TokensOf(ProcessedDoc(d, Q.options.maxBodyLength))) =>
              d.id \notin CandidateIds(R, t)

\* no query on the provider R, which is Q after remove(id), returns id
GoneAfterRemove(R, id) ==
    /\ \A t \in ProbeTerms : id \notin CandidateIds(R, t)
    /\ \A q \in Queries : id \notin ResultIds(query(R, q, 2))

\* C35: the documents a query finds for a term are those whose stored (latest)
\* version has the term as a token: a query after remove(id) never returns id
\* or has it as a candidate, and a query after upsert(d) has d as a candidate
\* for the tokens of d and for no term that only a replaced version had.
C35_WritesVisibleToNextQuery ==
    /\ \A t \in ProbeTerms :
          CandidateIds(P, t) = {id \in DocIds(docs) : t \in TokensOf(DocsGet(docs, id).doc)}
    /\ outcome.op \in {"query", "queryStream"} => ResultIds(outcome.results) \subseteq DocIds(docs)
    /\ \A d \in HotDocs : ~upsertThrows(P, d) => VisibleAfterUpsert(P, upsert(P, d), d)
    /\ \A id \in HotIds : GoneAfterRemove(remove(P, id), id)

\* a query for x has returned a.md and b.md from a provider that holds a.md
\* as "Ab" / "x ab": the upsert of a.md's other version replaces a version
\* with the token ab, and the remove of either document takes away a result
C35_Witness ==
    /\ outcome.op = "query"
    /\ outcome.q[1] = QTermX
    /\ ResultIds(outcome.results) = {"a.md", "b.md"}
    /\ DocsGet(docs, "a.md").doc = DocA1
    /\ <<"a", "b">> \in DOMAIN index
    /\ <<"a", "b">> \notin TokensOf(ProcessedDoc(DocA2, options.maxBodyLength))

\* the accepted candidates other than a whose score is at least a's
AtLeast(acc, a) == {b \in Range(acc) : b.id # a.id /\ b.score >= a.score}

\* C36: for a query with a valid regex and a limit L > 0, an accepted candidate
\* that matches the regex and has fewer than regexCandidateK accepted
\* candidates at or above its score is returned whenever fewer than L of the
\* candidates at or above its score match the regex; at most regexCandidateK
\* documents pass the filter.
C36_RegexFilterOverTopK ==
    (/\ outcome.op = "query"
     /\ outcome.limit > 0
     /\ outcome.q[1].regex # <<>>
     /\ ~RegexThrows(outcome.q[1].regex[1])) =>
        /\ Len(outcome.results) <= options.regexCandidateK
        /\ \A a \in Range(Accepted(P, outcome.q[1])) :
              (/\ RegexMatchesDoc(outcome.q[1].regex[1], DocsGet(docs, a.id).doc)
               /\ Cardinality(AtLeast(Accepted(P, outcome.q[1]), a)) < options.regexCandidateK
               /\ Cardinality({b \in AtLeast(Accepted(P, outcome.q[1]), a) :
                                  RegexMatchesDoc(outcome.q[1].regex[1], DocsGet(docs, b.id).doc)})
                     < outcome.limit) =>
                  a.id \in ResultIds(outcome.results)

\* C37: while the handler is loaded and the pending set is not empty the timer
\* is armed, so that the pending paths are processed without a further
\* event, the new path a rename event adds included.
C37_PendingImpliesTimerArmed ==
    (~vault.unloaded /\ vault.pendingUpdates # <<>>) => vault.updateTimer.armed

\* C38: a file given to VaultIndex.remove after its phase-1 upsert stays out of
\* the provider and of the file cache, whatever the body processor does later.
C38_RemovedFileStaysAbsent ==
    \A path \in indexer.removed :
        /\ ~DocsHas(docs, path)
        /\ path \notin DOMAIN indexer.fileCache

\* C39: a file that upsertIfChanged has skipped as unchanged has a document in
\* the provider, and every path of the file cache has one, also after
\* loadCache on a new indexer.
C39_CachedFilesAreIndexed ==
    /\ (/\ indexer.last # <<>>
        /\ indexer.last[1].op = "upsertIfChanged"
        /\ indexer.last[1].returned = "null") => DocsHas(docs, indexer.last[1].path)
    /\ \A path \in DOMAIN indexer.fileCache : DocsHas(docs, path)

\* C40: once every upsert in flight has completed, a file whose latest upsert
\* was called after its last modification has in the provider the document of
\* its latest content, and its file cache entry has the mtime and size of the
\* version that is indexed.
C40_LatestContentIndexed ==
    \A path \in DOMAIN indexer.startedAt :
        (/\ indexer.flights = <<>>
         /\ indexer.startedAt[path] = FileStat(indexer, path).mtime
         /\ DocsHas(docs, path)
         /\ path \in DOMAIN indexer.fileCache)
        => /\ DocsGet(docs, path).doc.body
                  = extractDocRead(path, FileStat(indexer, path).mtime).body
           /\ indexer.fileCache[path].mtime = DocsGet(docs, path).doc.mtime
           /\ indexer.fileCache[path].size = DocsGet(docs, path).doc.size

====
